---------------------------- MODULE Spec2Model ----------------------------
(***************************************************************************)
(* A model of public_price_stock (src/main.py): SharePoint table -> CSV /  *)
(* JSON.  Text (env values, paths, headers, cells, timestamps) is a        *)
(* sequence of characters, each a string, so that strip, replace, lower,   *)
(* quote, unquote and float parsing are computed character by character as *)
(* Python does.                                                            *)
(***************************************************************************)
EXTENDS Integers, Sequences, FiniteSets, TLC

VARIABLES
    pc,          \* position of the process: import steps, main's stages, exit
    env_idx,     \* index of the next module-level env(...) assignment (lines 33-39)
    cfg,         \* the module constants loaded so far: name -> stripped value
    token,       \* get_token's result inside main
    site_id,     \* resolve_site_id's result
    item_id,     \* the workbook resolve_item_id settled on: how, and which path or hit
    remaining,   \* resolve_item_id: candidates the for loop has not yielded yet
    requests,    \* every HTTP GET issued so far, in order: [url, status]
    stages,      \* the stages of main started so far, in order
    completed,   \* the stages of main that returned normally
    tbl_hdr,     \* the workbook table's header row as the API returns it
    tbl_body,    \* the workbook table's data body as the API returns it
    df,          \* the in-memory table: [columns, rows]
    ts,          \* the formatted timestamp of the run
    files,       \* output files written so far, in order
    logs,        \* log records that matter: resolved, "Run failed", "SUCCESS", traceback
    exit_code,   \* the process exit status once it has exited
    caught,      \* whether main's except clause handled an exception
    failed_stage,\* the stage whose failure ended the run, or "none"
    error,       \* the exception that ended the run (message or class), or "none"
    hits,        \* the items the drive search returned
    stock_raw,   \* to_bucket's argument
    bucket       \* to_bucket's result

vars == <<pc, env_idx, cfg, token, site_id, item_id, remaining, requests,
          stages, completed, tbl_hdr, tbl_body, df, ts, files, logs,
          exit_code, caught, failed_stage, error, hits, stock_raw, bucket>>

(***************************************************************************)
(* Bounds of the model.                                                    *)
(***************************************************************************)
MaxLen == 4      \* longest generated stock text
MaxCols == 2     \* widest header row / data body
MaxRows == 2     \* most rows in a data body

\* Python's None: no text equals it, "None" being no character
None == <<"None">>

(***************************************************************************)
(* Characters.  A printable ASCII character is the string of itself, tab,  *)
(* line feed, form feed and carriage return are "\t", "\n", "\f" and "\r", *)
(* and any other code point is named "U+" and its hexadecimal number in at *)
(* least four upper-case digits ("U+000B", "U+00E9", "U+1F600"); so is the *)
(* grave accent, "U+0060", which a string cannot hold.                     *)
(***************************************************************************)
\* the characters of code points 32 .. 126
Ascii ==
    <<" ", "!", "\"", "#", "$", "%", "&", "'", "(", ")", "*", "+", ",", "-", ".", "/",
      "0", "1", "2", "3", "4", "5", "6", "7", "8", "9", ":", ";", "<", "=", ">", "?",
      "@", "A", "B", "C", "D", "E", "F", "G", "H", "I", "J", "K", "L", "M", "N", "O",
      "P", "Q", "R", "S", "T", "U", "V", "W", "X", "Y", "Z", "[", "\\", "]", "^", "_",
      "U+0060", "a", "b", "c", "d", "e", "f", "g", "h", "i", "j", "k", "l", "m", "n", "o",
      "p", "q", "r", "s", "t", "u", "v", "w", "x", "y", "z", "{", "|", "}", "~">>

HexChar(d) ==
    CASE d = 0 -> "0" [] d = 1 -> "1" [] d = 2 -> "2" [] d = 3 -> "3"
      [] d = 4 -> "4" [] d = 5 -> "5" [] d = 6 -> "6" [] d = 7 -> "7"
      [] d = 8 -> "8" [] d = 9 -> "9" [] d = 10 -> "A" [] d = 11 -> "B"
      [] d = 12 -> "C" [] d = 13 -> "D" [] d = 14 -> "E" [] d = 15 -> "F"

\* the name of a number in hexadecimal, as one string
RECURSIVE HexName(_)
HexName(n) ==
    IF n < 16 THEN HexChar(n) ELSE HexName(n \div 16) \o HexChar(n % 16)

\* chr(n)
CharOf(n) ==
    IF n >= 32 /\ n <= 126 THEN Ascii[n - 31]
    ELSE CASE n = 9  -> "\t"
           [] n = 10 -> "\n"
           [] n = 12 -> "\f"
           [] n = 13 -> "\r"
           [] OTHER  -> "U+" \o (IF n < 16 THEN "000"
                                 ELSE IF n < 256 THEN "00"
                                 ELSE IF n < 4096 THEN "0"
                                 ELSE "") \o HexName(n)

\* ord(c)
CodePoint(c) ==
    IF \E i \in 1..Len(Ascii) : Ascii[i] = c
    THEN 31 + (CHOOSE i \in 1..Len(Ascii) : Ascii[i] = c)
    ELSE CHOOSE n \in 0..1114111 : CharOf(n) = c

(***************************************************************************)
(* Text helpers: Python str methods on sequences of characters.            *)
(***************************************************************************)
\* the characters str.strip() removes: those str.isspace() holds of
Whitespace ==
    {" ", "\t", "\n", "\f", "\r", "U+000B", "U+001C", "U+001D", "U+001E",
     "U+001F", "U+0085", "U+00A0", "U+1680", "U+2000", "U+2001", "U+2002",
     "U+2003", "U+2004", "U+2005", "U+2006", "U+2007", "U+2008", "U+2009",
     "U+200A", "U+2028", "U+2029", "U+202F", "U+205F", "U+3000"}

Digits == {"0", "1", "2", "3", "4", "5", "6", "7", "8", "9"}

DigitVal(c) ==
    CASE c = "0" -> 0 [] c = "1" -> 1 [] c = "2" -> 2 [] c = "3" -> 3
      [] c = "4" -> 4 [] c = "5" -> 5 [] c = "6" -> 6 [] c = "7" -> 7
      [] c = "8" -> 8 [] c = "9" -> 9

DigitChar(d) ==
    CASE d = 0 -> "0" [] d = 1 -> "1" [] d = 2 -> "2" [] d = 3 -> "3"
      [] d = 4 -> "4" [] d = 5 -> "5" [] d = 6 -> "6" [] d = 7 -> "7"
      [] d = 8 -> "8" [] d = 9 -> "9"

Drop(s, k) == IF k >= Len(s) THEN <<>> ELSE SubSeq(s, k + 1, Len(s))

Take(s, k) == IF k >= Len(s) THEN s ELSE SubSeq(s, 1, k)

StartsWith(s, p) == Len(p) <= Len(s) /\ SubSeq(s, 1, Len(p)) = p

EndsWith(s, p) ==
    Len(p) <= Len(s) /\ SubSeq(s, Len(s) - Len(p) + 1, Len(s)) = p

Contains(s, p) ==
    \E i \in 0..(Len(s) - Len(p)) : SubSeq(s, i + 1, i + Len(p)) = p

\* how many characters of the set cs s starts with
Leading(s, cs) ==
    CHOOSE k \in 0..Len(s) :
        /\ \A i \in 1..k : s[i] \in cs
        /\ k = Len(s) \/ s[k + 1] \notin cs

\* how many characters of the set cs s ends with
Trailing(s, cs) ==
    CHOOSE k \in 0..Len(s) :
        /\ \A i \in (Len(s) - k + 1)..Len(s) : s[i] \in cs
        /\ k = Len(s) \/ s[Len(s) - k] \notin cs

\* s without its leading characters of the set ws
LStripOf(s, ws) == Drop(s, Leading(s, ws))

\* s without its trailing characters of the set ws
RStripOf(s, ws) == Take(s, Len(s) - Trailing(s, ws))

LStrip(s) == LStripOf(s, Whitespace)

RStrip(s) == RStripOf(s, Whitespace)

\* str.strip()
Strip(s) == RStrip(LStrip(s))

\* str.replace(old, new): every non-overlapping occurrence, left to right
RECURSIVE Replace(_, _, _)
Replace(s, old, new) ==
    LET at == {i \in 1..(Len(s) - Len(old) + 1) :
                  SubSeq(s, i, i + Len(old) - 1) = old}
        i  == CHOOSE m \in at : \A k \in at : m <= k
    IN  IF at = {} THEN s
        ELSE Take(s, i - 1) \o new
                 \o Replace(Drop(s, i - 1 + Len(old)), old, new)

\* the characters of code points 0 .. 127
AsciiChars == {CharOf(n) : n \in 0..127}

\* the lower case of a character of the ASCII range
AsciiLower(c) ==
    CASE c = "A" -> "a" [] c = "B" -> "b" [] c = "C" -> "c" [] c = "D" -> "d"
      [] c = "E" -> "e" [] c = "F" -> "f" [] c = "G" -> "g" [] c = "H" -> "h"
      [] c = "I" -> "i" [] c = "J" -> "j" [] c = "K" -> "k" [] c = "L" -> "l"
      [] c = "M" -> "m" [] c = "N" -> "n" [] c = "O" -> "o" [] c = "P" -> "p"
      [] c = "Q" -> "q" [] c = "R" -> "r" [] c = "S" -> "s" [] c = "T" -> "t"
      [] c = "U" -> "u" [] c = "V" -> "v" [] c = "W" -> "w" [] c = "X" -> "x"
      [] c = "Y" -> "y" [] c = "Z" -> "z"
      [] OTHER -> c

\* the ASCII letters of a text in lower case, the rest as it is
LowerAscii(s) == [i \in 1..Len(s) |-> AsciiLower(s[i])]

\* the characters beyond ASCII whose lower case is another single
\* character (Unicode 14.0, the tables of CPython 3.11), in runs
\* <<first, count, step, lower case of the first>>: the k-th character of a
\* run is first + step * k and its lower case is as far above the lower
\* case of the first
LowerRuns ==
    { <<192, 23, 1, 224>>, <<216, 7, 1, 248>>, <<256, 24, 2, 257>>, <<306, 3, 2, 307>>,
      <<313, 8, 2, 314>>, <<330, 23, 2, 331>>, <<376, 1, 1, 255>>, <<377, 3, 2, 378>>,
      <<385, 1, 1, 595>>, <<386, 2, 2, 387>>, <<390, 1, 1, 596>>, <<391, 1, 1, 392>>,
      <<393, 2, 1, 598>>, <<395, 1, 1, 396>>, <<398, 1, 1, 477>>, <<399, 1, 1, 601>>,
      <<400, 1, 1, 603>>, <<401, 1, 1, 402>>, <<403, 1, 1, 608>>, <<404, 1, 1, 611>>,
      <<406, 1, 1, 617>>, <<407, 1, 1, 616>>, <<408, 1, 1, 409>>, <<412, 1, 1, 623>>,
      <<413, 1, 1, 626>>, <<415, 1, 1, 629>>, <<416, 3, 2, 417>>, <<422, 1, 1, 640>>,
      <<423, 1, 1, 424>>, <<425, 1, 1, 643>>, <<428, 1, 1, 429>>, <<430, 1, 1, 648>>,
      <<431, 1, 1, 432>>, <<433, 2, 1, 650>>, <<435, 2, 2, 436>>, <<439, 1, 1, 658>>,
      <<440, 1, 1, 441>>, <<444, 1, 1, 445>>, <<452, 1, 1, 454>>, <<453, 1, 1, 454>>,
      <<455, 1, 1, 457>>, <<456, 1, 1, 457>>, <<458, 1, 1, 460>>, <<459, 9, 2, 460>>,
      <<478, 9, 2, 479>>, <<497, 1, 1, 499>>, <<498, 2, 2, 499>>, <<502, 1, 1, 405>>,
      <<503, 1, 1, 447>>, <<504, 20, 2, 505>>, <<544, 1, 1, 414>>, <<546, 9, 2, 547>>,
      <<570, 1, 1, 11365>>, <<571, 1, 1, 572>>, <<573, 1, 1, 410>>, <<574, 1, 1, 11366>>,
      <<577, 1, 1, 578>>, <<579, 1, 1, 384>>, <<580, 1, 1, 649>>, <<581, 1, 1, 652>>,
      <<582, 5, 2, 583>>, <<880, 2, 2, 881>>, <<886, 1, 1, 887>>, <<895, 1, 1, 1011>>,
      <<902, 1, 1, 940>>, <<904, 3, 1, 941>>, <<908, 1, 1, 972>>, <<910, 2, 1, 973>>,
      <<913, 17, 1, 945>>, <<931, 9, 1, 963>>, <<975, 1, 1, 983>>, <<984, 12, 2, 985>>,
      <<1012, 1, 1, 952>>, <<1015, 1, 1, 1016>>, <<1017, 1, 1, 1010>>, <<1018, 1, 1, 1019>>,
      <<1021, 3, 1, 891>>, <<1024, 16, 1, 1104>>, <<1040, 32, 1, 1072>>, <<1120, 17, 2, 1121>>,
      <<1162, 27, 2, 1163>>, <<1216, 1, 1, 1231>>, <<1217, 7, 2, 1218>>, <<1232, 48, 2, 1233>>,
      <<1329, 38, 1, 1377>>, <<4256, 38, 1, 11520>>, <<4295, 1, 1, 11559>>, <<4301, 1, 1, 11565>>,
      <<5024, 80, 1, 43888>>, <<5104, 6, 1, 5112>>, <<7312, 43, 1, 4304>>, <<7357, 3, 1, 4349>>,
      <<7680, 75, 2, 7681>>, <<7838, 1, 1, 223>>, <<7840, 48, 2, 7841>>, <<7944, 8, 1, 7936>>,
      <<7960, 6, 1, 7952>>, <<7976, 8, 1, 7968>>, <<7992, 8, 1, 7984>>, <<8008, 6, 1, 8000>>,
      <<8025, 4, 2, 8017>>, <<8040, 8, 1, 8032>>, <<8072, 8, 1, 8064>>, <<8088, 8, 1, 8080>>,
      <<8104, 8, 1, 8096>>, <<8120, 2, 1, 8112>>, <<8122, 2, 1, 8048>>, <<8124, 1, 1, 8115>>,
      <<8136, 4, 1, 8050>>, <<8140, 1, 1, 8131>>, <<8152, 2, 1, 8144>>, <<8154, 2, 1, 8054>>,
      <<8168, 2, 1, 8160>>, <<8170, 2, 1, 8058>>, <<8172, 1, 1, 8165>>, <<8184, 2, 1, 8056>>,
      <<8186, 2, 1, 8060>>, <<8188, 1, 1, 8179>>, <<8486, 1, 1, 969>>, <<8490, 1, 1, 107>>,
      <<8491, 1, 1, 229>>, <<8498, 1, 1, 8526>>, <<8544, 16, 1, 8560>>, <<8579, 1, 1, 8580>>,
      <<9398, 26, 1, 9424>>, <<11264, 48, 1, 11312>>, <<11360, 1, 1, 11361>>, <<11362, 1, 1, 619>>,
      <<11363, 1, 1, 7549>>, <<11364, 1, 1, 637>>, <<11367, 3, 2, 11368>>, <<11373, 1, 1, 593>>,
      <<11374, 1, 1, 625>>, <<11375, 1, 1, 592>>, <<11376, 1, 1, 594>>, <<11378, 1, 1, 11379>>,
      <<11381, 1, 1, 11382>>, <<11390, 2, 1, 575>>, <<11392, 50, 2, 11393>>, <<11499, 2, 2, 11500>>,
      <<11506, 1, 1, 11507>>, <<42560, 23, 2, 42561>>, <<42624, 14, 2, 42625>>, <<42786, 7, 2, 42787>>,
      <<42802, 31, 2, 42803>>, <<42873, 2, 2, 42874>>, <<42877, 1, 1, 7545>>, <<42878, 5, 2, 42879>>,
      <<42891, 1, 1, 42892>>, <<42893, 1, 1, 613>>, <<42896, 2, 2, 42897>>, <<42902, 10, 2, 42903>>,
      <<42922, 1, 1, 614>>, <<42923, 1, 1, 604>>, <<42924, 1, 1, 609>>, <<42925, 1, 1, 620>>,
      <<42926, 1, 1, 618>>, <<42928, 1, 1, 670>>, <<42929, 1, 1, 647>>, <<42930, 1, 1, 669>>,
      <<42931, 1, 1, 43859>>, <<42932, 8, 2, 42933>>, <<42948, 1, 1, 42900>>, <<42949, 1, 1, 642>>,
      <<42950, 1, 1, 7566>>, <<42951, 2, 2, 42952>>, <<42960, 1, 1, 42961>>, <<42966, 2, 2, 42967>>,
      <<42997, 1, 1, 42998>>, <<65313, 26, 1, 65345>>, <<66560, 40, 1, 66600>>, <<66736, 36, 1, 66776>>,
      <<66928, 11, 1, 66967>>, <<66940, 15, 1, 66979>>, <<66956, 7, 1, 66995>>, <<66964, 2, 1, 67003>>,
      <<68736, 51, 1, 68800>>, <<71840, 32, 1, 71872>>, <<93760, 32, 1, 93792>>, <<125184, 34, 1, 125218>> }

LowerPairs ==
    UNION { {<<CharOf(r[1] + r[3] * k), CharOf(r[4] + r[3] * k)>> : k \in 0..(r[2] - 1)}
            : r \in LowerRuns }

\* c.lower() for a single character c, a text: one character, or two for
\* U+0130, whose lower case is "i" and the combining dot above
LowerChar(c) ==
    IF c \in AsciiChars THEN <<AsciiLower(c)>>
    ELSE IF c = "U+0130" THEN <<"i", "U+0307">>
    ELSE IF \E p \in LowerPairs : p[1] = c
         THEN <<(CHOOSE p \in LowerPairs : p[1] = c)[2]>>
         ELSE <<c>>

\* the code points str.lower() passes over when it looks for the letter
\* next to a capital sigma (the Case_Ignorable property), in ranges
\* <<first, last>>
CaseIgnorableRanges ==
    { <<39, 39>>, <<46, 46>>, <<58, 58>>, <<94, 94>>, <<96, 96>>, <<168, 168>>,
      <<173, 173>>, <<175, 175>>, <<180, 180>>, <<183, 184>>, <<688, 879>>, <<884, 885>>,
      <<890, 890>>, <<900, 901>>, <<903, 903>>, <<1155, 1161>>, <<1369, 1369>>, <<1375, 1375>>,
      <<1425, 1469>>, <<1471, 1471>>, <<1473, 1474>>, <<1476, 1477>>, <<1479, 1479>>, <<1524, 1524>>,
      <<1536, 1541>>, <<1552, 1562>>, <<1564, 1564>>, <<1600, 1600>>, <<1611, 1631>>, <<1648, 1648>>,
      <<1750, 1757>>, <<1759, 1768>>, <<1770, 1773>>, <<1807, 1807>>, <<1809, 1809>>, <<1840, 1866>>,
      <<1958, 1968>>, <<2027, 2037>>, <<2042, 2042>>, <<2045, 2045>>, <<2070, 2093>>, <<2137, 2139>>,
      <<2184, 2184>>, <<2192, 2193>>, <<2200, 2207>>, <<2249, 2306>>, <<2362, 2362>>, <<2364, 2364>>,
      <<2369, 2376>>, <<2381, 2381>>, <<2385, 2391>>, <<2402, 2403>>, <<2417, 2417>>, <<2433, 2433>>,
      <<2492, 2492>>, <<2497, 2500>>, <<2509, 2509>>, <<2530, 2531>>, <<2558, 2558>>, <<2561, 2562>>,
      <<2620, 2620>>, <<2625, 2626>>, <<2631, 2632>>, <<2635, 2637>>, <<2641, 2641>>, <<2672, 2673>>,
      <<2677, 2677>>, <<2689, 2690>>, <<2748, 2748>>, <<2753, 2757>>, <<2759, 2760>>, <<2765, 2765>>,
      <<2786, 2787>>, <<2810, 2815>>, <<2817, 2817>>, <<2876, 2876>>, <<2879, 2879>>, <<2881, 2884>>,
      <<2893, 2893>>, <<2901, 2902>>, <<2914, 2915>>, <<2946, 2946>>, <<3008, 3008>>, <<3021, 3021>>,
      <<3072, 3072>>, <<3076, 3076>>, <<3132, 3132>>, <<3134, 3136>>, <<3142, 3144>>, <<3146, 3149>>,
      <<3157, 3158>>, <<3170, 3171>>, <<3201, 3201>>, <<3260, 3260>>, <<3263, 3263>>, <<3270, 3270>>,
      <<3276, 3277>>, <<3298, 3299>>, <<3328, 3329>>, <<3387, 3388>>, <<3393, 3396>>, <<3405, 3405>>,
      <<3426, 3427>>, <<3457, 3457>>, <<3530, 3530>>, <<3538, 3540>>, <<3542, 3542>>, <<3633, 3633>>,
      <<3636, 3642>>, <<3654, 3662>>, <<3761, 3761>>, <<3764, 3772>>, <<3782, 3782>>, <<3784, 3789>>,
      <<3864, 3865>>, <<3893, 3893>>, <<3895, 3895>>, <<3897, 3897>>, <<3953, 3966>>, <<3968, 3972>>,
      <<3974, 3975>>, <<3981, 3991>>, <<3993, 4028>>, <<4038, 4038>>, <<4141, 4144>>, <<4146, 4151>>,
      <<4153, 4154>>, <<4157, 4158>>, <<4184, 4185>>, <<4190, 4192>>, <<4209, 4212>>, <<4226, 4226>>,
      <<4229, 4230>>, <<4237, 4237>>, <<4253, 4253>>, <<4348, 4348>>, <<4957, 4959>>, <<5906, 5908>>,
      <<5938, 5939>>, <<5970, 5971>>, <<6002, 6003>>, <<6068, 6069>>, <<6071, 6077>>, <<6086, 6086>>,
      <<6089, 6099>>, <<6103, 6103>>, <<6109, 6109>>, <<6155, 6159>>, <<6211, 6211>>, <<6277, 6278>>,
      <<6313, 6313>>, <<6432, 6434>>, <<6439, 6440>>, <<6450, 6450>>, <<6457, 6459>>, <<6679, 6680>>,
      <<6683, 6683>>, <<6742, 6742>>, <<6744, 6750>>, <<6752, 6752>>, <<6754, 6754>>, <<6757, 6764>>,
      <<6771, 6780>>, <<6783, 6783>>, <<6823, 6823>>, <<6832, 6862>>, <<6912, 6915>>, <<6964, 6964>>,
      <<6966, 6970>>, <<6972, 6972>>, <<6978, 6978>>, <<7019, 7027>>, <<7040, 7041>>, <<7074, 7077>>,
      <<7080, 7081>>, <<7083, 7085>>, <<7142, 7142>>, <<7144, 7145>>, <<7149, 7149>>, <<7151, 7153>>,
      <<7212, 7219>>, <<7222, 7223>>, <<7288, 7293>>, <<7376, 7378>>, <<7380, 7392>>, <<7394, 7400>>,
      <<7405, 7405>>, <<7412, 7412>>, <<7416, 7417>>, <<7468, 7530>>, <<7544, 7544>>, <<7579, 7679>>,
      <<8125, 8125>>, <<8127, 8129>>, <<8141, 8143>>, <<8157, 8159>>, <<8173, 8175>>, <<8189, 8190>>,
      <<8203, 8207>>, <<8216, 8217>>, <<8228, 8228>>, <<8231, 8231>>, <<8234, 8238>>, <<8288, 8292>>,
      <<8294, 8303>>, <<8305, 8305>>, <<8319, 8319>>, <<8336, 8348>>, <<8400, 8432>>, <<11388, 11389>>,
      <<11503, 11505>>, <<11631, 11631>>, <<11647, 11647>>, <<11744, 11775>>, <<11823, 11823>>, <<12293, 12293>>,
      <<12330, 12333>>, <<12337, 12341>>, <<12347, 12347>>, <<12441, 12446>>, <<12540, 12542>>, <<40981, 40981>>,
      <<42232, 42237>>, <<42508, 42508>>, <<42607, 42610>>, <<42612, 42621>>, <<42623, 42623>>, <<42652, 42655>>,
      <<42736, 42737>>, <<42752, 42785>>, <<42864, 42864>>, <<42888, 42890>>, <<42994, 42996>>, <<43000, 43001>>,
      <<43010, 43010>>, <<43014, 43014>>, <<43019, 43019>>, <<43045, 43046>>, <<43052, 43052>>, <<43204, 43205>>,
      <<43232, 43249>>, <<43263, 43263>>, <<43302, 43309>>, <<43335, 43345>>, <<43392, 43394>>, <<43443, 43443>>,
      <<43446, 43449>>, <<43452, 43453>>, <<43471, 43471>>, <<43493, 43494>>, <<43561, 43566>>, <<43569, 43570>>,
      <<43573, 43574>>, <<43587, 43587>>, <<43596, 43596>>, <<43632, 43632>>, <<43644, 43644>>, <<43696, 43696>>,
      <<43698, 43700>>, <<43703, 43704>>, <<43710, 43711>>, <<43713, 43713>>, <<43741, 43741>>, <<43756, 43757>>,
      <<43763, 43764>>, <<43766, 43766>>, <<43867, 43871>>, <<43881, 43883>>, <<44005, 44005>>, <<44008, 44008>>,
      <<44013, 44013>>, <<64286, 64286>>, <<64434, 64450>>, <<65024, 65039>>, <<65043, 65043>>, <<65056, 65071>>,
      <<65106, 65106>>, <<65109, 65109>>, <<65279, 65279>>, <<65287, 65287>>, <<65294, 65294>>, <<65306, 65306>>,
      <<65342, 65342>>, <<65344, 65344>>, <<65392, 65392>>, <<65438, 65439>>, <<65507, 65507>>, <<65529, 65531>>,
      <<66045, 66045>>, <<66272, 66272>>, <<66422, 66426>>, <<67456, 67461>>, <<67463, 67504>>, <<67506, 67514>>,
      <<68097, 68099>>, <<68101, 68102>>, <<68108, 68111>>, <<68152, 68154>>, <<68159, 68159>>, <<68325, 68326>>,
      <<68900, 68903>>, <<69291, 69292>>, <<69446, 69456>>, <<69506, 69509>>, <<69633, 69633>>, <<69688, 69702>>,
      <<69744, 69744>>, <<69747, 69748>>, <<69759, 69761>>, <<69811, 69814>>, <<69817, 69818>>, <<69821, 69821>>,
      <<69826, 69826>>, <<69837, 69837>>, <<69888, 69890>>, <<69927, 69931>>, <<69933, 69940>>, <<70003, 70003>>,
      <<70016, 70017>>, <<70070, 70078>>, <<70089, 70092>>, <<70095, 70095>>, <<70191, 70193>>, <<70196, 70196>>,
      <<70198, 70199>>, <<70206, 70206>>, <<70367, 70367>>, <<70371, 70378>>, <<70400, 70401>>, <<70459, 70460>>,
      <<70464, 70464>>, <<70502, 70508>>, <<70512, 70516>>, <<70712, 70719>>, <<70722, 70724>>, <<70726, 70726>>,
      <<70750, 70750>>, <<70835, 70840>>, <<70842, 70842>>, <<70847, 70848>>, <<70850, 70851>>, <<71090, 71093>>,
      <<71100, 71101>>, <<71103, 71104>>, <<71132, 71133>>, <<71219, 71226>>, <<71229, 71229>>, <<71231, 71232>>,
      <<71339, 71339>>, <<71341, 71341>>, <<71344, 71349>>, <<71351, 71351>>, <<71453, 71455>>, <<71458, 71461>>,
      <<71463, 71467>>, <<71727, 71735>>, <<71737, 71738>>, <<71995, 71996>>, <<71998, 71998>>, <<72003, 72003>>,
      <<72148, 72151>>, <<72154, 72155>>, <<72160, 72160>>, <<72193, 72202>>, <<72243, 72248>>, <<72251, 72254>>,
      <<72263, 72263>>, <<72273, 72278>>, <<72281, 72283>>, <<72330, 72342>>, <<72344, 72345>>, <<72752, 72758>>,
      <<72760, 72765>>, <<72767, 72767>>, <<72850, 72871>>, <<72874, 72880>>, <<72882, 72883>>, <<72885, 72886>>,
      <<73009, 73014>>, <<73018, 73018>>, <<73020, 73021>>, <<73023, 73029>>, <<73031, 73031>>, <<73104, 73105>>,
      <<73109, 73109>>, <<73111, 73111>>, <<73459, 73460>>, <<78896, 78904>>, <<92912, 92916>>, <<92976, 92982>>,
      <<92992, 92995>>, <<94031, 94031>>, <<94095, 94111>>, <<94176, 94177>>, <<94179, 94180>>, <<110576, 110579>>,
      <<110581, 110587>>, <<110589, 110590>>, <<113821, 113822>>, <<113824, 113827>>, <<118528, 118573>>, <<118576, 118598>>,
      <<119143, 119145>>, <<119155, 119170>>, <<119173, 119179>>, <<119210, 119213>>, <<119362, 119364>>, <<121344, 121398>>,
      <<121403, 121452>>, <<121461, 121461>>, <<121476, 121476>>, <<121499, 121503>>, <<121505, 121519>>, <<122880, 122886>>,
      <<122888, 122904>>, <<122907, 122913>>, <<122915, 122916>>, <<122918, 122922>>, <<123184, 123197>>, <<123566, 123566>>,
      <<123628, 123631>>, <<125136, 125142>>, <<125252, 125259>>, <<127995, 127999>>, <<917505, 917505>>, <<917536, 917631>>,
      <<917760, 917999>> }

CaseIgnorable ==
    UNION {{CharOf(n) : n \in r[1]..r[2]} : r \in CaseIgnorableRanges}

\* the cased code points that are not case-ignorable, in ranges
CasedRanges ==
    { <<65, 90>>, <<97, 122>>, <<170, 170>>, <<181, 181>>, <<186, 186>>, <<192, 214>>,
      <<216, 246>>, <<248, 442>>, <<444, 447>>, <<452, 659>>, <<661, 687>>, <<880, 883>>,
      <<886, 887>>, <<891, 893>>, <<895, 895>>, <<902, 902>>, <<904, 906>>, <<908, 908>>,
      <<910, 929>>, <<931, 1013>>, <<1015, 1153>>, <<1162, 1327>>, <<1329, 1366>>, <<1376, 1416>>,
      <<4256, 4293>>, <<4295, 4295>>, <<4301, 4301>>, <<4304, 4346>>, <<4349, 4351>>, <<5024, 5109>>,
      <<5112, 5117>>, <<7296, 7304>>, <<7312, 7354>>, <<7357, 7359>>, <<7424, 7467>>, <<7531, 7543>>,
      <<7545, 7578>>, <<7680, 7957>>, <<7960, 7965>>, <<7968, 8005>>, <<8008, 8013>>, <<8016, 8023>>,
      <<8025, 8025>>, <<8027, 8027>>, <<8029, 8029>>, <<8031, 8061>>, <<8064, 8116>>, <<8118, 8124>>,
      <<8126, 8126>>, <<8130, 8132>>, <<8134, 8140>>, <<8144, 8147>>, <<8150, 8155>>, <<8160, 8172>>,
      <<8178, 8180>>, <<8182, 8188>>, <<8450, 8450>>, <<8455, 8455>>, <<8458, 8467>>, <<8469, 8469>>,
      <<8473, 8477>>, <<8484, 8484>>, <<8486, 8486>>, <<8488, 8488>>, <<8490, 8493>>, <<8495, 8500>>,
      <<8505, 8505>>, <<8508, 8511>>, <<8517, 8521>>, <<8526, 8526>>, <<8544, 8575>>, <<8579, 8580>>,
      <<9398, 9449>>, <<11264, 11387>>, <<11390, 11492>>, <<11499, 11502>>, <<11506, 11507>>, <<11520, 11557>>,
      <<11559, 11559>>, <<11565, 11565>>, <<42560, 42605>>, <<42624, 42651>>, <<42786, 42863>>, <<42865, 42887>>,
      <<42891, 42894>>, <<42896, 42954>>, <<42960, 42961>>, <<42963, 42963>>, <<42965, 42969>>, <<42997, 42998>>,
      <<43002, 43002>>, <<43824, 43866>>, <<43872, 43880>>, <<43888, 43967>>, <<64256, 64262>>, <<64275, 64279>>,
      <<65313, 65338>>, <<65345, 65370>>, <<66560, 66639>>, <<66736, 66771>>, <<66776, 66811>>, <<66928, 66938>>,
      <<66940, 66954>>, <<66956, 66962>>, <<66964, 66965>>, <<66967, 66977>>, <<66979, 66993>>, <<66995, 67001>>,
      <<67003, 67004>>, <<68736, 68786>>, <<68800, 68850>>, <<71840, 71903>>, <<93760, 93823>>, <<119808, 119892>>,
      <<119894, 119964>>, <<119966, 119967>>, <<119970, 119970>>, <<119973, 119974>>, <<119977, 119980>>, <<119982, 119993>>,
      <<119995, 119995>>, <<119997, 120003>>, <<120005, 120069>>, <<120071, 120074>>, <<120077, 120084>>, <<120086, 120092>>,
      <<120094, 120121>>, <<120123, 120126>>, <<120128, 120132>>, <<120134, 120134>>, <<120138, 120144>>, <<120146, 120485>>,
      <<120488, 120512>>, <<120514, 120538>>, <<120540, 120570>>, <<120572, 120596>>, <<120598, 120628>>, <<120630, 120654>>,
      <<120656, 120686>>, <<120688, 120712>>, <<120714, 120744>>, <<120746, 120770>>, <<120772, 120779>>, <<122624, 122633>>,
      <<122635, 122654>>, <<125184, 125251>>, <<127280, 127305>>, <<127312, 127337>>, <<127344, 127369>> }

Cased == UNION {{CharOf(n) : n \in r[1]..r[2]} : r \in CasedRanges}

\* the capital sigma s[i] ends a word: a cased letter precedes it and none
\* follows it, case-ignorable characters in between passed over
FinalSigma(s, i) ==
    /\ \E j \in 1..(i - 1) :
          /\ s[j] \in Cased
          /\ \A h \in (j + 1)..(i - 1) : s[h] \in CaseIgnorable
    /\ ~\E j \in (i + 1)..Len(s) :
          /\ s[j] \in Cased
          /\ \A h \in (i + 1)..(j - 1) : s[h] \in CaseIgnorable

\* the texts of a sequence joined
RECURSIVE Concat(_)
Concat(parts) ==
    IF parts = <<>> THEN <<>>
    ELSE IF Len(parts) = 1 THEN parts[1]
    ELSE Concat(SubSeq(parts, 1, Len(parts) \div 2))
             \o Concat(SubSeq(parts, Len(parts) \div 2 + 1, Len(parts)))

\* str.lower(): every character in lower case, a capital sigma as the final
\* sigma U+03C2 where it ends a word and as U+03C3 elsewhere
Lower(s) ==
    IF \A i \in 1..Len(s) : s[i] \in AsciiChars THEN LowerAscii(s)
    ELSE Concat([i \in 1..Len(s) |->
                    IF s[i] = "U+03A3"
                    THEN <<IF FinalSigma(s, i) THEN "U+03C2" ELSE "U+03C3">>
                    ELSE LowerChar(s[i])])

\* str(int) for a natural number
RECURSIVE NatToText(_)
NatToText(n) ==
    IF n < 10 THEN <<DigitChar(n)>>
    ELSE NatToText(n \div 10) \o <<DigitChar(n % 10)>>

RECURSIVE Pow10(_)
Pow10(k) == IF k = 0 THEN 1 ELSE 10 * Pow10(k - 1)

(***************************************************************************)
(* float(val) and int(float(val)), lines 166-169.  A finite float is kept  *)
(* as the decimal the text denotes, digits * 10^exp10 with the digits a    *)
(* text of any length; the rounding to a double is applied where it shows: *)
(* in the overflow to infinity and in the integer int() returns.           *)
(***************************************************************************)
\* the longest prefix of s made of digits
DigitSpan(s) == Take(s, Leading(s, Digits))

RECURSIVE DigitsToNat(_)
DigitsToNat(ds) ==
    IF ds = <<>> THEN 0
    ELSE 10 * DigitsToNat(SubSeq(ds, 1, Len(ds) - 1)) + DigitVal(ds[Len(ds)])

\* digits without their leading zeros
Significant(ds) == Drop(ds, Leading(ds, {"0"}))

\* the first n digits of ds, zeros appended when it has fewer
PadRight(ds, n) == [i \in 1..n |-> IF i <= Len(ds) THEN ds[i] ELSE "0"]

\* ds with zeros in front up to n digits
PadLeft(ds, n) == [i \in 1..(n - Len(ds)) |-> "0"] \o ds

\* every digit d of ds replaced by 9 - d
NinesComplement(ds) ==
    [i \in 1..Len(ds) |-> DigitChar(9 - DigitVal(ds[i]))]

\* a < b for two digit texts of the same length
DigitsLess(a, b) ==
    \E i \in 1..Len(a) :
        /\ DigitVal(a[i]) < DigitVal(b[i])
        /\ \A h \in 1..(i - 1) : a[h] = b[h]

\* the digits of 5 * ds, which is half of 10 * ds: a digit of the half is
\* half the digit, and 5 more when the digit before is odd
TimesFive(ds) ==
    IF ds = <<>> THEN <<>>
    ELSE LET x == ds \o <<"0">>
             h == [i \in 1..Len(x) |->
                      DigitChar((DigitVal(x[i]) \div 2)
                          + (IF i > 1 /\ DigitVal(x[i - 1]) % 2 = 1 THEN 5 ELSE 0))]
         IN  Significant(SubSeq(h, 1, Len(x)))

\* the digits of 5^1, 5^2, ... 5^j
RECURSIVE Pow5Seq(_)
Pow5Seq(j) ==
    IF j = 1 THEN << <<"5">> >>
    ELSE LET prev == Pow5Seq(j - 1) IN Append(prev, TimesFive(prev[j - 1]))

\* the powers of five the rounding of a number below 10^9 needs
Pow5Table == Pow5Seq(54)

\* the digits of 5^j, 1 <= j <= 54
Pow5Digits(j) == Pow5Table[j]

RECURSIVE Log2Floor(_)
Log2Floor(n) == IF n < 2 THEN 0 ELSE 1 + Log2Floor(n \div 2)

RECURSIVE Pow2(_)
Pow2(k) == IF k = 0 THEN 1 ELSE 2 * Pow2(k - 1)

FloatError == [kind |-> "ValueError"]
FloatInf(neg) == [kind |-> "inf", neg |-> neg]
FloatNan == [kind |-> "nan"]

\* the digits of 2^1024 - 2^970, half way between the largest double and
\* 2^1024: a decimal rounds to infinity exactly when it is at least this
DblOverflow ==
    <<"1", "7", "9", "7", "6", "9", "3", "1", "3", "4", "8", "6", "2", "3", "1", "5",
      "8", "0", "7", "9", "3", "7", "2", "8", "9", "7", "1", "4", "0", "5", "3", "0",
      "3", "4", "1", "5", "0", "7", "9", "9", "3", "4", "1", "3", "2", "7", "1", "0",
      "0", "3", "7", "8", "2", "6", "9", "3", "6", "1", "7", "3", "7", "7", "8", "9",
      "8", "0", "4", "4", "4", "9", "6", "8", "2", "9", "2", "7", "6", "4", "7", "5",
      "0", "9", "4", "6", "6", "4", "9", "0", "1", "7", "9", "7", "7", "5", "8", "7",
      "2", "0", "7", "0", "9", "6", "3", "3", "0", "2", "8", "6", "4", "1", "6", "6",
      "9", "2", "8", "8", "7", "9", "1", "0", "9", "4", "6", "5", "5", "5", "5", "4",
      "7", "8", "5", "1", "9", "4", "0", "4", "0", "2", "6", "3", "0", "6", "5", "7",
      "4", "8", "8", "6", "7", "1", "5", "0", "5", "8", "2", "0", "6", "8", "1", "9",
      "0", "8", "9", "0", "2", "0", "0", "0", "7", "0", "8", "3", "8", "3", "6", "7",
      "6", "2", "7", "3", "8", "5", "4", "8", "4", "5", "8", "1", "7", "7", "1", "1",
      "5", "3", "1", "7", "6", "4", "4", "7", "5", "7", "3", "0", "2", "7", "0", "0",
      "6", "9", "8", "5", "5", "5", "7", "1", "3", "6", "6", "9", "5", "9", "6", "2",
      "2", "8", "4", "2", "9", "1", "4", "8", "1", "9", "8", "6", "0", "8", "3", "4",
      "9", "3", "6", "4", "7", "5", "2", "9", "2", "7", "1", "9", "0", "7", "4", "1",
      "6", "8", "4", "4", "4", "3", "6", "5", "5", "1", "0", "7", "0", "4", "3", "4",
      "2", "7", "1", "1", "5", "5", "9", "6", "9", "9", "5", "0", "8", "0", "9", "3",
      "0", "4", "2", "8", "8", "0", "1", "7", "7", "9", "0", "4", "1", "7", "4", "4",
      "9", "7", "7", "9", "2">>

\* digits * 10^exp10 rounds to infinity (digits without leading zeros)
Overflows(digits, exp10) ==
    LET n == Len(DblOverflow) IN
    /\ digits # <<>>
    /\ \/ Len(digits) + exp10 > n
       \/ /\ Len(digits) + exp10 = n
          /\ ~DigitsLess(PadRight(digits, n), DblOverflow)

\* an underscore of a numeric literal stands between two digits
UnderscoresGrouped(s) ==
    \A i \in 1..Len(s) :
        s[i] = "_" => /\ i > 1 /\ s[i - 1] \in Digits
                      /\ i < Len(s) /\ s[i + 1] \in Digits

NotUnderscore(c) == c # "_"

\* the decimal  digits [. digits] [e [sign] digits]  after the sign, single
\* underscores between its digits left out
ParseDecimal(neg, text) ==
    LET s     == SelectSeq(text, NotUnderscore)
        ip    == DigitSpan(s)
        r1    == Drop(s, Len(ip))
        dot   == r1 # <<>> /\ r1[1] = "."
        fp    == IF dot THEN DigitSpan(Tail(r1)) ELSE <<>>
        r2    == IF dot THEN Drop(r1, 1 + Len(fp)) ELSE r1
        hasE  == r2 # <<>> /\ r2[1] \in {"e", "E"}
        r3    == IF hasE THEN Tail(r2) ELSE r2
        esign == hasE /\ r3 # <<>> /\ r3[1] \in {"+", "-"}
        eneg  == esign /\ r3[1] = "-"
        r4    == IF esign THEN Tail(r3) ELSE r3
        ed    == IF hasE THEN DigitSpan(r4) ELSE <<>>
        rest  == IF hasE THEN Drop(r4, Len(ed)) ELSE r2
        sig   == Significant(ip \o fp)
        \* exponents beyond +-100000 change nothing: the value is already inf or 0
        eabs  == IF Len(Significant(ed)) > 5 THEN 100000
                 ELSE DigitsToNat(Significant(ed))
        ex    == IF eneg THEN 0 - eabs ELSE eabs
        exp10 == ex - Len(fp)
    IN  IF \/ ~UnderscoresGrouped(text)
           \/ Len(ip) + Len(fp) = 0
           \/ hasE /\ ed = <<>>
           \/ rest # <<>>
        THEN FloatError
        ELSE IF Overflows(sig, exp10) THEN FloatInf(neg)
        ELSE [kind |-> "fin", neg |-> neg, digits |-> sig, exp10 |-> exp10]

\* the code points of the zero of every run of ten decimal digits (Unicode
\* 14.0, that of Python 3.11)
DecimalZeros ==
    {48, 1632, 1776, 1984, 2406, 2534, 2662, 2790, 2918, 3046, 3174, 3302,
     3430, 3558, 3664, 3792, 3872, 4160, 4240, 6112, 6160, 6470, 6608, 6784,
     6800, 6992, 7088, 7232, 7248, 42528, 43216, 43264, 43472, 43504, 43600,
     44016, 65296, 66720, 68912, 69734, 69872, 69942, 70096, 70384, 70736,
     70864, 71248, 71360, 71472, 71904, 72016, 72784, 73040, 73120, 92768,
     92864, 93008, 120782, 120792, 120802, 120812, 120822, 123200, 123632,
     125264, 130032}

\* float() reads a decimal digit of any script as its ASCII digit
AsciiDigit(c) ==
    IF \E i \in 1..Len(Ascii) : Ascii[i] = c THEN c
    ELSE IF \E z \in DecimalZeros, d \in 0..9 : CharOf(z + d) = c
         THEN DigitChar(CHOOSE d \in 0..9 :
                            \E z \in DecimalZeros : CharOf(z + d) = c)
         ELSE c

AsciiDigits(s) == [i \in 1..Len(s) |-> AsciiDigit(s[i])]

\* the white space float() ignores around the number: those of str.strip() but for
\* the four separators U+001C .. U+001F
FloatWhitespace == Whitespace \ {"U+001C", "U+001D", "U+001E", "U+001F"}

\* float(val): surrounding whitespace, a sign, then inf / infinity / nan
\* (either case of the ASCII letters) or a decimal
ParseFloat(val) ==
    LET t    == AsciiDigits(val)
        s    == RStripOf(LStripOf(t, FloatWhitespace), FloatWhitespace)
        sgn  == s # <<>> /\ s[1] \in {"+", "-"}
        neg  == sgn /\ s[1] = "-"
        body == IF sgn THEN Tail(s) ELSE s
        low  == LowerAscii(body)
    IN  IF low \in {<<"i", "n", "f">>, <<"i", "n", "f", "i", "n", "i", "t", "y">>}
        THEN FloatInf(neg)
        ELSE IF low = <<"n", "a", "n">> THEN FloatNan
        ELSE ParseDecimal(neg, body)

\* magnitudes from 10^9 on are all represented by 10^9: n is only ever
\* compared with 0, 10 and 50
Huge == Pow10(9)

\* a decimal m + 0.frac, 0 <= m < 10^9, rounds to the double m + 1 when it
\* is within half a unit in the last place below m + 1, that is when
\* 0.frac >= 1 - 2^-j, j = 53 - floor(log2(m + 1)), one more for a power of
\* two; a tie goes to m + 1, whose significand is even.  2^-j is 5^j / 10^j.
RoundsUp(m, frac) ==
    LET k    == Log2Floor(m + 1)
        j    == IF Pow2(k) = m + 1 THEN 54 - k ELSE 53 - k
        nine == NinesComplement(PadLeft(Pow5Digits(j), j))
    IN  /\ frac # <<>> /\ frac[1] = "9"    \* 1 - 2^-j > 0.9, j being 23 at least
        /\ DigitsLess(nine, PadRight(frac, j))

\* int(f) of a finite float: the double nearest to the decimal, truncated
\* toward zero
IntOfFloat(f) ==
    LET nd   == Len(f.digits)
        ilen == nd + f.exp10
        ip   == Take(f.digits, ilen)
        frac == Drop(f.digits, ilen)
        mag  == IF f.exp10 >= 0
                THEN IF nd = 0 THEN 0
                     ELSE IF ilen > 9 THEN Huge
                     ELSE DigitsToNat(f.digits) * Pow10(f.exp10)
                ELSE IF ilen < 0 THEN 0
                     ELSE IF ilen > 9 THEN Huge
                     ELSE IF RoundsUp(DigitsToNat(ip), frac)
                          THEN DigitsToNat(ip) + 1
                          ELSE DigitsToNat(ip)
    IN  IF f.neg THEN 0 - mag ELSE mag

(***************************************************************************)
(* to_bucket, lines 163-173.                                               *)
(***************************************************************************)
B0 == <<"0">>
BLt10 == <<"<", "1", "0">>
BLt50 == <<"<", "5", "0">>
BGt50 == <<">", "5", "0">>
Buckets == {B0, BLt10, BLt50, BGt50}

TextNone == <<"N", "o", "n", "e">>
TextNan == <<"n", "a", "n">>

\* line 166: (stock_raw or "").replace(",", ".").strip()
StockVal(raw) ==
    Strip(Replace(IF raw = None THEN <<>> ELSE raw, <<",">>, <<".">>))

\* lines 166-167, the body of the try: n, or an exception (ValueError of
\* float, ValueError / OverflowError of int)
TryN(raw) ==
    LET val == StockVal(raw) IN
    IF val \in {<<>>, TextNone, TextNan} THEN [raised |-> FALSE, n |-> 0]
    ELSE LET f == ParseFloat(val) IN
         IF f.kind = "fin" THEN [raised |-> FALSE, n |-> IntOfFloat(f)]
         ELSE [raised |-> TRUE, n |-> 0]

\* lines 165-169: except Exception: n = 0
StockN(raw) == IF TryN(raw).raised THEN 0 ELSE TryN(raw).n

\* a boundary slip: n = 10 put in "<10"
BucketOfN_le10(n) ==
    IF n <= 0 THEN B0
    ELSE IF n <= 10 THEN BLt10
    ELSE IF n < 50 THEN BLt50
    ELSE BGt50

\* a boundary slip: n = 0 not put in "0"
BucketOfN_lt0(n) ==
    IF n < 0 THEN B0
    ELSE IF n < 10 THEN BLt10
    ELSE IF n < 50 THEN BLt50
    ELSE BGt50

\* lines 170-173
BucketOfN(n) ==
    IF n <= 0 THEN B0
    ELSE IF n < 10 THEN BLt10
    ELSE IF n < 50 THEN BLt50
    ELSE BGt50

to_bucket(raw) == BucketOfN(StockN(raw))

(***************************************************************************)
(* urllib.parse.quote / unquote and os.path.                               *)
(***************************************************************************)
Letters ==
    {"a", "b", "c", "d", "e", "f", "g", "h", "i", "j", "k", "l", "m", "n",
     "o", "p", "q", "r", "s", "t", "u", "v", "w", "x", "y", "z",
     "A", "B", "C", "D", "E", "F", "G", "H", "I", "J", "K", "L", "M", "N",
     "O", "P", "Q", "R", "S", "T", "U", "V", "W", "X", "Y", "Z"}

\* quote never escapes these
AlwaysSafe == Letters \cup Digits \cup {"_", ".", "-", "~"}

\* line 43
SAFE_PATH == {"/", ":", "+", "(", ")", "%", "!", "$", "&", "'", ",", ";", "=", "@"}

\* str.encode("utf-8") of a surrogate raises
UnicodeEncodeError == <<"UnicodeEncodeError">>

\* the surrogates U+D800 .. U+DFFF; os.getenv gives U+DC80 .. U+DCFF for the
\* bytes of a variable that are not UTF-8
Surrogates == {CharOf(n) : n \in 55296..57343}

\* the UTF-8 bytes of a code point; a surrogate has none
Utf8(n) ==
    IF n >= 55296 /\ n <= 57343 THEN UnicodeEncodeError
    ELSE IF n < 128 THEN <<n>>
    ELSE IF n < 2048 THEN <<192 + (n \div 64), 128 + (n % 64)>>
    ELSE IF n < 65536
         THEN <<224 + (n \div 4096), 128 + ((n \div 64) % 64), 128 + (n % 64)>>
    ELSE <<240 + (n \div 262144), 128 + ((n \div 4096) % 64),
           128 + ((n \div 64) % 64), 128 + (n % 64)>>

\* "%XX" of every byte, the hexadecimal digits in upper case
RECURSIVE PercentBytes(_)
PercentBytes(bs) ==
    IF bs = <<>> THEN <<>>
    ELSE <<"%", HexChar(bs[1] \div 16), HexChar(bs[1] % 16)>>
             \o PercentBytes(Tail(bs))

PercentCode(c) ==
    IF c \in Surrogates THEN UnicodeEncodeError
    ELSE PercentBytes(Utf8(CodePoint(c)))

\* quote, character by character, of a text that can be encoded
RECURSIVE QuoteChars(_, _)
QuoteChars(s, safe) ==
    IF s = <<>> THEN <<>>
    ELSE IF Len(s) = 1
         THEN IF s[1] \in AlwaysSafe \cup safe THEN s ELSE PercentCode(s[1])
         ELSE QuoteChars(SubSeq(s, 1, Len(s) \div 2), safe)
                  \o QuoteChars(SubSeq(s, Len(s) \div 2 + 1, Len(s)), safe)

\* urllib.parse.quote(s, safe=safe): the text is encoded as UTF-8 as a
\* whole, which raises when it holds a surrogate, and every byte that is
\* not safe is escaped
Quote(s, safe) ==
    IF \E i \in 1..Len(s) : s[i] \in Surrogates THEN UnicodeEncodeError
    ELSE QuoteChars(s, safe)

HexDigits ==
    Digits \cup {"a", "b", "c", "d", "e", "f", "A", "B", "C", "D", "E", "F"}

HexVal(c) ==
    CASE c \in Digits     -> DigitVal(c)
      [] c \in {"a", "A"} -> 10 [] c \in {"b", "B"} -> 11
      [] c \in {"c", "C"} -> 12 [] c \in {"d", "D"} -> 13
      [] c \in {"e", "E"} -> 14 [] c \in {"f", "F"} -> 15

NoByte == 0 - 1

\* the byte the k-th of the escapes s starts with stands for, NoByte when s
\* does not start with k escapes "%XX"
EscapedByte(s, k) ==
    LET i == 3 * k - 2 IN
    IF /\ Len(s) >= 3 * k
       /\ \A e \in 1..k : /\ s[3 * e - 2] = "%"
                          /\ s[3 * e - 1] \in HexDigits
                          /\ s[3 * e] \in HexDigits
    THEN 16 * HexVal(s[i + 1]) + HexVal(s[i + 2])
    ELSE NoByte

\* U+FFFD, what bytes that are not UTF-8 decode to
Replacement == CharOf(65533)

\* urllib.parse.unquote(s): the bytes of the escapes "%XX" (either case of
\* the hexadecimal digits) decoded as UTF-8, every maximal ill-formed run of
\* them replaced by U+FFFD; anything else stays
RECURSIVE Unquote(_)
Unquote(s) ==
    IF s = <<>> THEN <<>>
    ELSE
    LET b1   == EscapedByte(s, 1)
        b2   == EscapedByte(s, 2)
        b3   == EscapedByte(s, 3)
        b4   == EscapedByte(s, 4)
        Cont(b) == b >= 128 /\ b <= 191
        \* the second byte a lead byte admits
        lo2  == IF b1 = 224 THEN 160 ELSE IF b1 = 240 THEN 144 ELSE 128
        hi2  == IF b1 = 237 THEN 159 ELSE IF b1 = 244 THEN 143 ELSE 191
        ok2  == b2 >= lo2 /\ b2 <= hi2
    IN  IF b1 = NoByte THEN <<s[1]>> \o Unquote(Tail(s))
        ELSE IF b1 < 128 THEN <<CharOf(b1)>> \o Unquote(Drop(s, 3))
        ELSE IF b1 >= 194 /\ b1 <= 223
             THEN IF ok2
                  THEN <<CharOf((b1 - 192) * 64 + (b2 - 128))>>
                           \o Unquote(Drop(s, 6))
                  ELSE <<Replacement>> \o Unquote(Drop(s, 3))
        ELSE IF b1 >= 224 /\ b1 <= 239
             THEN IF ~ok2 THEN <<Replacement>> \o Unquote(Drop(s, 3))
                  ELSE IF ~Cont(b3) THEN <<Replacement>> \o Unquote(Drop(s, 6))
                  ELSE <<CharOf((b1 - 224) * 4096 + (b2 - 128) * 64
                                                  + (b3 - 128))>>
                           \o Unquote(Drop(s, 9))
        ELSE IF b1 >= 240 /\ b1 <= 244
             THEN IF ~ok2 THEN <<Replacement>> \o Unquote(Drop(s, 3))
                  ELSE IF ~Cont(b3) THEN <<Replacement>> \o Unquote(Drop(s, 6))
                  ELSE IF ~Cont(b4) THEN <<Replacement>> \o Unquote(Drop(s, 9))
                  ELSE <<CharOf((b1 - 240) * 262144 + (b2 - 128) * 4096
                                    + (b3 - 128) * 64 + (b4 - 128))>>
                           \o Unquote(Drop(s, 12))
        ELSE <<Replacement>> \o Unquote(Drop(s, 3))

\* the index of the last "/" of s, 0 when it has none
LastSlash(s) ==
    LET at == {i \in 1..Len(s) : s[i] = "/"} IN
    IF at = {} THEN 0 ELSE CHOOSE m \in at : \A k \in at : k <= m

\* os.path.basename
Basename(p) == Drop(p, LastSlash(p))

\* rstrip("/")
RStripSlash(s) == RStripOf(s, {"/"})

\* os.path.dirname: the head up to the last "/", its trailing slashes
\* removed unless it consists of slashes only
Dirname(p) ==
    LET head == Take(p, LastSlash(p)) IN
    IF RStripSlash(head) = <<>> THEN head ELSE RStripSlash(head)

(***************************************************************************)
(* The environment, the clock and the remote service.                      *)
(***************************************************************************)
\* lines 33-39, in the order of the assignments
EnvNames ==
    <<"TENANT_ID", "CLIENT_ID", "CLIENT_SECRET", "SP_SITE_HOSTNAME",
      "SP_SITE_PATH", "SP_XLSX_PATH", "SP_TABLE_NAME">>

\* workbook paths the environment may configure; the last holds U+DCFF,
\* what os.getenv makes of the byte FF
XlsxPaths ==
    { <<"/", "S", "h", "a", "r", "e", "d", " ", "D", "o", "c", "u", "m", "e", "n", "t", "s", "/", "f", ".", "x">>,
      <<" ", "/", "D", "o", "c", "u", "m", "e", "n", "t", "s", "/", "d", "/", "f", ".", "x", " ">>,
      <<"/", "S", "h", "a", "r", "e", "d", "%", "2", "0", "D", "o", "c", "u", "m", "e", "n", "t", "s", "/", "f", "%", "2", "e", "x">>,
      <<"d", "/", "f", ".", "x">>,
      <<"/", "U+DCFF", ".", "x">> }

\* what os.getenv(name) may return: unset, empty, or a value
EnvChoices(name) ==
    {None, <<>>} \cup
    CASE name = "SP_XLSX_PATH"     -> XlsxPaths
      [] name = "TENANT_ID"        -> {<<" ">>, <<"t", "1", " ">>}
      [] name = "CLIENT_ID"        -> {<<"c", "1">>}
      [] name = "CLIENT_SECRET"    -> {<<"s", "3">>}
      [] name = "SP_SITE_HOSTNAME" -> {<<"h", ".", "s", "p", ".", "c", "o", "m">>}
      [] name = "SP_SITE_PATH"     -> {<<"/", "s", "i", "t", "e", "s", "/", "E">>}
      [] name = "SP_TABLE_NAME"    -> {<<"_", "p", "p", " ", "t">>, <<"t", "U+DCFF">>}

\* HTTP status codes a GET may answer with
Statuses == {200, 400}

\* requests.get raised (time-out, connection error): there is no status
NoStatus == 0 - 1

\* what the body of an answer below 400 may be: a JSON object, JSON that is
\* no object (a list, a string, a number, null), or no JSON at all
AnswerKinds == {"object", "list", "not_json"}

\* the search answer: also an object whose "value" cannot be iterated (null,
\* a number)
SearchAnswers == AnswerKinds \cup {"value_scalar"}

\* the headerRowRange answer: also an object whose "values" is a number
\* other than 0, a list whose first member is a number or null, or an object
HeaderAnswers == AnswerKinds \cup {"values_scalar", "row_scalar", "values_object"}

\* the dataBodyRange answer: also an object whose "values" is a number other
\* than 0 or a string
BodyAnswers == AnswerKinds \cup {"values_scalar"}

\* the same where the code reads the key "id" of the object
IdAnswers == {"id", "no_id", "list", "not_json"}

\* items the drive search may return: [id, name, parent].  parent is empty
\* when the item has no parentReference (or that no path) and None when the
\* parentReference or its path is null or no text, or the item no object;
\* id is None when the item has no id
SearchPool ==
    { [id |-> <<"i", "1">>, name |-> <<"f", ".", "x">>, parent |-> <<"/", "d", "r", "i", "v", "e", "s", "/", "b", "/", "r", "o", "o", "t", ":", "/", "D", "o", "c", "u", "m", "e", "n", "t", "s">>],
      [id |-> <<"i", "2">>, name |-> <<"f", ".", "x">>, parent |-> <<"/", "d", "r", "i", "v", "e", "s", "/", "b", "/", "r", "o", "o", "t", ":", "/", "O", "l", "d", "/", "d">>],
      [id |-> <<"i", "3">>, name |-> <<"f", ".", "x">>, parent |-> <<>>],
      [id |-> None, name |-> <<"f", ".", "x">>, parent |-> <<"/", "d", "r", "i", "v", "e", "s", "/", "b", "/", "r", "o", "o", "t", ":", "/", "D", "o", "c", "u", "m", "e", "n", "t", "s", "/", "d">>],
      [id |-> <<"i", "5">>, name |-> <<"f", ".", "x">>, parent |-> None] }

\* search results: up to two items, in any order
SearchResults ==
    {<<>>} \cup {<<a>> : a \in SearchPool}
           \cup {s \in SearchPool \X SearchPool : s[1] # s[2]}

\* the clock's reading formatted by strftime("%d.%m.%Y %H:%M"), line 195
ClockTexts == { <<"3", "0", ".", "1", "0", ".", "2", "0", "2", "6", " ", "1", "8", ":", "5", "4">>, <<"0", "1", ".", "0", "1", ".", "2", "0", "2", "7", " ", "0", "0", ":", "0", "0">> }

NoDf == [columns |-> <<>>, rows |-> <<>>]
NoItem == [via |-> "none", ref |-> <<>>]

Url(kind, arg) == [kind |-> kind, arg |-> arg]

(***************************************************************************)
(* Module import: the seven env(...) assignments, lines 27-39.             *)
(***************************************************************************)
\* an exception nothing catches: the traceback is printed and the
\* interpreter exits with status 1
Uncaught(stage, msg) ==
    /\ pc' = "exit"
    /\ exit_code' = 1
    /\ failed_stage' = stage
    /\ error' = msg
    /\ logs' = Append(logs, "Traceback")
    /\ UNCHANGED caught

\* one module-level  NAME = env("NAME")
env ==
    /\ pc = "import"
    /\ \E v \in EnvChoices(EnvNames[env_idx]) :
         IF v = None \/ v = <<>>
         THEN /\ Uncaught("env", "Missing required env var")
              /\ UNCHANGED <<env_idx, cfg>>
         ELSE /\ cfg' = [cfg EXCEPT ![EnvNames[env_idx]] = Strip(v)]
              /\ IF env_idx = Len(EnvNames)
                 THEN pc' = "get_token" /\ UNCHANGED env_idx
                 ELSE pc' = "import" /\ env_idx' = env_idx + 1
              /\ UNCHANGED <<exit_code, failed_stage, error, logs, caught>>
    /\ UNCHANGED <<token, site_id, item_id, remaining, requests, stages,
                   completed, tbl_hdr, tbl_body, df, ts, files, hits,
                   stock_raw, bucket>>

(***************************************************************************)
(* main, lines 188-218.                                                    *)
(***************************************************************************)
\* the except clause returns 0
RunFailed_return0(stage, msg, logged) ==
    /\ pc' = "exit"
    /\ exit_code' = 0
    /\ caught' = TRUE
    /\ failed_stage' = stage
    /\ error' = msg
    /\ logs' = Append(logs \o logged, "Run failed")

\* lines 213-215 and 218: except Exception -> "Run failed", return 1, exit;
\* logged is what the failing stage logged before it raised
RunFailed(stage, msg, logged) ==
    /\ pc' = "exit"
    /\ exit_code' = 1
    /\ caught' = TRUE
    /\ failed_stage' = stage
    /\ error' = msg
    /\ logs' = Append(logs \o logged, "Run failed")

Running == UNCHANGED <<exit_code, caught, failed_stage>>  \* no exception

\* gget with one retry: a failed request is issued a second time
Get_retry(url, status) ==
    requests' = IF status = NoStatus \/ status >= 400
                THEN requests \o <<[url |-> url, status |-> status],
                                   [url |-> url, status |-> status]>>
                ELSE Append(requests, [url |-> url, status |-> status])

\* requests.get inside gget / gget_raw: one request, answered or not
Get(url, status) == requests' = Append(requests, [url |-> url, status |-> status])

\* lines 58-62: what gget raises on an answer, "none" when it returns the
\* JSON of the body
gget(status, kind) ==
    IF status = NoStatus THEN "requests.get raised"
    ELSE IF status >= 400 THEN "Graph GET"
    ELSE IF kind = "not_json" THEN "ValueError"
    ELSE "none"

\* r.json()["id"] and data["id"]: what reading the id of an answer raises
IdError(kind) ==
    CASE kind = "not_json" -> "ValueError"
      [] kind = "list"     -> "TypeError"
      [] kind = "no_id"    -> "KeyError"
      [] OTHER             -> "none"

\* gget(...).get(...): what reading a key of an answer raises
GetError(status, kind) ==
    IF gget(status, kind) # "none" THEN gget(status, kind)
    ELSE IF kind = "list" THEN "AttributeError"
    ELSE "none"

\* lines 80 and 107: what search_item and the for loop over its result
\* raise before the first hit
SearchError(status, kind) ==
    IF GetError(status, kind) # "none" THEN GetError(status, kind)
    ELSE IF kind = "value_scalar" THEN "TypeError"
    ELSE "none"

\* lines 142-143: what the gget of the header row and the list of headers
\* raise: hdr_values[0] of a number or of an object, the iteration of a
\* first member that is a number or null
HeaderError(status, kind) ==
    IF GetError(status, kind) # "none" THEN GetError(status, kind)
    ELSE CASE kind = "values_scalar" -> "TypeError"
           [] kind = "row_scalar"    -> "TypeError"
           [] kind = "values_object" -> "KeyError"
           [] OTHER                  -> "none"

\* lines 145-146: what the gget of the data body and pd.DataFrame raise
BodyError(status, kind) ==
    IF GetError(status, kind) # "none" THEN GetError(status, kind)
    ELSE IF kind = "values_scalar" THEN "DataFrame constructor"
    ELSE "none"

\* line 190: get_token
get_token ==
    /\ pc = "get_token"
    /\ stages' = Append(stages, "get_token")
    /\ \E result \in {"access_token", "error", "raised"} :
         IF result = "access_token"
         THEN /\ token' = <<"t", "o", "k">>
              /\ completed' = completed \cup {"get_token"}
              /\ pc' = "resolve_site_id"
              /\ Running /\ UNCHANGED <<logs, error>>
         ELSE /\ RunFailed("get_token",
                           IF result = "error" THEN "MS Graph auth failed"
                           ELSE "msal raised", <<>>)
              /\ UNCHANGED <<token, completed>>
    /\ UNCHANGED <<env_idx, cfg, site_id, item_id, remaining, requests,
                   tbl_hdr, tbl_body, df, ts, files, hits, stock_raw, bucket>>

\* line 191: resolve_site_id, one gget and the id of its answer
resolve_site_id ==
    /\ pc = "resolve_site_id"
    /\ stages' = Append(stages, "resolve_site_id")
    /\ \E status \in Statuses \cup {NoStatus}, kind \in IdAnswers :
         LET err == IF gget(status, kind) # "none" THEN gget(status, kind)
                    ELSE IdError(kind)
         IN  /\ Get(Url("site", cfg["SP_SITE_HOSTNAME"] \o <<":">> \o cfg["SP_SITE_PATH"]),
                    status)
             /\ IF err = "none"
                THEN /\ site_id' = <<"s", "i", "t", "e">>
                     /\ completed' = completed \cup {"resolve_site_id"}
                     /\ pc' = "resolve_item_id"
                     /\ Running /\ UNCHANGED <<logs, error>>
                ELSE /\ RunFailed("resolve_site_id", err, <<>>)
                     /\ UNCHANGED <<site_id, completed>>
    /\ UNCHANGED <<env_idx, cfg, token, item_id, remaining, tbl_hdr,
                   tbl_body, df, ts, files, hits, stock_raw, bucket>>


(***************************************************************************)
(* resolve_item_id, lines 71-113.                                          *)
(***************************************************************************)
SharedDocs == <<"/", "S", "h", "a", "r", "e", "d", " ", "D", "o", "c", "u", "m", "e", "n", "t", "s">>
Docs == <<"/", "D", "o", "c", "u", "m", "e", "n", "t", "s">>

\* lines 84-90 and 100-106: the same five expressions on a path or a folder
Variants(p) ==
    { p,
      Replace(p, SharedDocs, Docs),
      Replace(p, Docs, SharedDocs),
      IF StartsWith(p, SharedDocs \o <<"/">>)
      THEN Replace(p, SharedDocs \o <<"/">>, <<"/">>) ELSE p,
      IF StartsWith(p, Docs \o <<"/">>)
      THEN Replace(p, Docs \o <<"/">>, <<"/">>) ELSE p }

\* lines 72-74: the URL try_item_by_path requests; its arg is
\* UnicodeEncodeError when quote raises
PathUrl(path) ==
    LET p == IF StartsWith(path, <<"/">>) THEN path ELSE <<"/">> \o path
    IN  Url("path", Quote(p, SAFE_PATH))

\* lines 78-79: the URL search_item requests; its arg is UnicodeEncodeError
\* when quote raises
SearchUrl(filename) == Url("search", Quote(filename, {}))

\* line 109
ParentMatches(parent, variants) ==
    \E v \in variants :
        EndsWith(parent, v) \/ Contains(parent, <<"/", "d", "r", "i", "v", "e", "/", "r", "o", "o", "t", ":">> \o v)

\* lines 107-111: the loop goes no further than this hit, whose parent
\* matches (line 109) or is null (line 108 raises)
Stops(it, variants) ==
    \/ it.parent = None
    \/ ParentMatches(it.parent, variants)

\* the first search hit the loop stops at, 0 when it passes them all
FirstMatch(found, variants) ==
    IF \E i \in 1..Len(found) : Stops(found[i], variants)
    THEN CHOOSE i \in 1..Len(found) :
            /\ Stops(found[i], variants)
            /\ \A j \in 1..(i - 1) : ~Stops(found[j], variants)
    ELSE 0

NotFound == "Excel workbook not found via Graph."

\* lines 82-90: entering resolve_item_id builds the candidate set
resolve_item_id ==
    /\ pc = "resolve_item_id"
    /\ stages' = Append(stages, "resolve_item_id")
    /\ remaining' = Variants(cfg["SP_XLSX_PATH"])
    /\ pc' = "try_paths"
    /\ Running
    /\ UNCHANGED <<env_idx, cfg, token, site_id, item_id, requests, completed,
                   tbl_hdr, tbl_body, df, ts, files, logs, error, hits,
                   stock_raw, bucket>>

\* lines 91-95: one iteration of  for p in candidates.  candidates is a set
\* of str: the order in which the loop yields its members is not fixed (it
\* follows the strings' hashes, randomised per process).  quote raises
\* before any request; an answer below 400 is logged as the resolution
\* before its id is read
try_item_by_path ==
    /\ pc = "try_paths"
    /\ \E p \in remaining :
         IF PathUrl(p).arg = UnicodeEncodeError
         THEN /\ RunFailed("resolve_item_id", "UnicodeEncodeError", <<>>)
              /\ UNCHANGED <<requests, item_id, remaining, completed>>
         ELSE \E status \in Statuses \cup {NoStatus}, kind \in IdAnswers :
                /\ Get(PathUrl(p), status)
                /\ IF status = NoStatus
                   THEN /\ RunFailed("resolve_item_id", "requests.get raised", <<>>)
                        /\ UNCHANGED <<item_id, remaining, completed>>
                   ELSE IF status < 400
                   THEN /\ item_id' = [via |-> "path", ref |-> p]
                        /\ IF IdError(kind) = "none"
                           THEN /\ logs' = Append(logs, "Resolved workbook by path")
                                /\ completed' = completed \cup {"resolve_item_id"}
                                /\ pc' = "read_table"
                                /\ Running /\ UNCHANGED <<remaining, error>>
                           ELSE /\ RunFailed("resolve_item_id", IdError(kind),
                                             <<"Resolved workbook by path">>)
                                /\ UNCHANGED <<remaining, completed>>
                   ELSE /\ remaining' = remaining \ {p}
                        /\ pc' = IF remaining \ {p} = {} THEN "search" ELSE "try_paths"
                        /\ Running /\ UNCHANGED <<item_id, logs, completed, error>>
    /\ UNCHANGED <<env_idx, cfg, token, site_id, stages, tbl_hdr, tbl_body,
                   df, ts, files, hits, stock_raw, bucket>>

\* lines 97-113: the fallback, a search by file name.  The loop raises on
\* a "value" it cannot iterate and on a hit whose parent path it cannot
\* read; a matching hit is logged as the resolution before its id is read
search_item ==
    /\ pc = "search"
    /\ LET filename   == Basename(Unquote(cfg["SP_XLSX_PATH"]))
           parent_dir == Replace(Dirname(Unquote(cfg["SP_XLSX_PATH"])),
                                 <<"\\">>, <<"/">>)
           variants   == Variants(parent_dir)
       IN  IF SearchUrl(filename).arg = UnicodeEncodeError
           THEN /\ RunFailed("resolve_item_id", "UnicodeEncodeError", <<>>)
                /\ UNCHANGED <<requests, item_id, completed, hits>>
           ELSE \E status \in Statuses \cup {NoStatus}, kind \in SearchAnswers :
             /\ Get(SearchUrl(filename), status)
             /\ IF SearchError(status, kind) # "none"
                THEN /\ RunFailed("resolve_item_id", SearchError(status, kind), <<>>)
                     /\ UNCHANGED <<item_id, completed, hits>>
                ELSE \E found \in SearchResults :
                       LET k == FirstMatch(found, variants) IN
                       /\ hits' = found
                       /\ IF k = 0
                          THEN /\ RunFailed("resolve_item_id", NotFound, <<>>)
                               /\ UNCHANGED <<item_id, completed>>
                          ELSE IF found[k].parent = None
                          THEN /\ RunFailed("resolve_item_id", "AttributeError", <<>>)
                               /\ UNCHANGED <<item_id, completed>>
                          ELSE IF found[k].id = None
                          THEN /\ RunFailed("resolve_item_id", "KeyError",
                                            <<"Resolved workbook by search">>)
                               /\ UNCHANGED <<item_id, completed>>
                          ELSE /\ item_id' = [via |-> "search", ref |-> found[k].id]
                               /\ logs' = Append(logs, "Resolved workbook by search")
                               /\ completed' = completed \cup {"resolve_item_id"}
                               /\ pc' = "read_table"
                               /\ Running /\ UNCHANGED error
    /\ UNCHANGED <<env_idx, cfg, token, site_id, remaining, stages, tbl_hdr,
                   tbl_body, df, ts, files, stock_raw, bucket>>

(***************************************************************************)
(* make_unique, clean_cell, read_table: lines 116-161.                     *)
(***************************************************************************)
ColText == <<"c", "o", "l">>

\* line 120-122
UniqueBase(n) ==
    LET base == IF n = None THEN <<>> ELSE Strip(n)
    IN  IF base = <<>> THEN ColText ELSE base

\* lines 116-129: the k-th use of a base, k > 1, becomes base__k
make_unique(names) ==
    [i \in 1..Len(names) |->
        LET base == UniqueBase(names[i])
            seen == Cardinality({j \in 1..i : UniqueBase(names[j]) = base})
        IN  IF seen = 1 THEN base
            ELSE base \o <<"_", "_">> \o NatToText(seen)]

\* lines 131-137
clean_cell(x) == IF x = None THEN <<>> ELSE Strip(x)

Max(S) == IF S = {} THEN 0 ELSE CHOOSE m \in S : \A k \in S : k <= m

\* pd.DataFrame(body): as wide as the longest row, shorter rows padded with
\* None; shape[1] is 0 when there is no row
FrameWidth(body) == Max({Len(body[r]) : r \in 1..Len(body)})

FrameRows(body) ==
    [r \in 1..Len(body) |->
        [c \in 1..FrameWidth(body) |->
            IF c <= Len(body[r]) THEN body[r][c] ELSE None]]

\* line 152
DefaultColumns(n) == [i \in 1..n |-> ColText \o NatToText(i)]

\* lines 142-161, given the two JSON answers
ReadTable(hdr_json, body_json) ==
    LET hdr_values == IF hdr_json.has_values THEN hdr_json.values ELSE << <<>> >>
        headers    == IF hdr_values # <<>>
                      THEN [i \in 1..Len(hdr_values[1]) |-> Strip(hdr_values[1][i])]
                      ELSE <<>>
        body       == IF body_json.has_values THEN body_json.values ELSE <<>>
        width      == FrameWidth(body)
        named      == IF headers # <<>> /\ Len(headers) = width
                      THEN headers
                      ELSE DefaultColumns(width)
        rows       == FrameRows(body)
    IN  [columns |-> make_unique(named),
         rows    |-> [r \in 1..Len(rows) |->
                        [c \in 1..width |-> clean_cell(rows[r][c])]]]

\* no two of the names are the same
Unique(names) ==
    \A i \in 1..Len(names) : \A j \in 1..Len(names) :
        names[i] = names[j] => i = j

\* lines 141-142 and 145: the URL of a range of the table; its arg is
\* UnicodeEncodeError when quote raises
TableUrl(range) ==
    Url(range, Quote(cfg["SP_TABLE_NAME"], {}))

\* lines 141-143 of read_table (line 193): the table's URL, the gget of the
\* header row and the list of headers
read_table ==
    /\ pc = "read_table"
    /\ stages' = Append(stages, "read_table")
    /\ IF TableUrl("headerRowRange").arg = UnicodeEncodeError
       THEN /\ RunFailed("read_table", "UnicodeEncodeError", <<>>)
            /\ UNCHANGED requests
       ELSE \E status \in Statuses \cup {NoStatus}, kind \in HeaderAnswers :
              /\ Get(TableUrl("headerRowRange"), status)
              /\ IF HeaderError(status, kind) = "none"
                 THEN /\ pc' = "read_body"
                      /\ Running /\ UNCHANGED <<logs, error>>
                 ELSE RunFailed("read_table", HeaderError(status, kind), <<>>)
    /\ UNCHANGED <<env_idx, cfg, token, site_id, item_id, remaining, completed,
                   tbl_hdr, tbl_body, df, ts, files, hits, stock_raw, bucket>>

\* lines 145-161 of read_table: the gget of the data body and the frame
\* built from the two answers.  pd.DataFrame raises on "values" that are a
\* number or a string.  When make_unique leaves two columns of one name (a
\* header "a__2" after two headers "a"), df[c] of line 159 is a frame and
\* not a column: the line raises or cleans the cells, by the version of
\* pandas
read_table_body ==
    /\ pc = "read_body"
    /\ \E status \in Statuses \cup {NoStatus}, kind \in BodyAnswers :
         /\ Get(TableUrl("dataBodyRange"), status)
         /\ IF BodyError(status, kind) # "none"
            THEN /\ RunFailed("read_table", BodyError(status, kind), <<>>)
                 /\ UNCHANGED <<df, completed>>
            ELSE \/ /\ df' = ReadTable(tbl_hdr, tbl_body)
                    /\ completed' = completed \cup {"read_table"}
                    /\ pc' = "apply_business_rules"
                    /\ Running /\ UNCHANGED <<logs, error>>
                 \/ /\ ~Unique(ReadTable(tbl_hdr, tbl_body).columns)
                    /\ RunFailed("read_table", "pandas raised", <<>>)
                    /\ UNCHANGED <<df, completed>>
    /\ UNCHANGED <<env_idx, cfg, token, site_id, item_id, remaining, stages,
                   tbl_hdr, tbl_body, ts, files, hits, stock_raw, bucket>>

(***************************************************************************)
(* apply_business_rules, lines 175-186.                                    *)
(***************************************************************************)
StockText == <<"s", "t", "o", "c", "k">>
UpdatedAt == <<"u", "p", "d", "a", "t", "e", "d", "A", "t">>

\* lines 177-179: lower_map keeps, for each lower-cased name, the last
\* column carrying it; 0 when no column lower-cases to "stock"
StockCol(columns) ==
    Max({i \in 1..Len(columns) : Lower(columns[i]) = StockText})

\* line 180
BucketColumn(frame, k) ==
    [frame EXCEPT !.rows =
        [r \in 1..Len(frame.rows) |->
            [frame.rows[r] EXCEPT ![k] = to_bucket(frame.rows[r][k])]]]

\* the column is always appended, an existing one never overwritten
SetColumn_append(frame, name, value) ==
    [columns |-> Append(frame.columns, name),
     rows    |-> [r \in 1..Len(frame.rows) |-> Append(frame.rows[r], value)]]

\* line 185: df["updatedAt"] = ts_str overwrites the column of that name
\* or appends a new last column
SetColumn(frame, name, value) ==
    IF \E i \in 1..Len(frame.columns) : frame.columns[i] = name
    THEN LET k == CHOOSE i \in 1..Len(frame.columns) : frame.columns[i] = name
         IN  [frame EXCEPT !.rows =
                [r \in 1..Len(frame.rows) |->
                    [frame.rows[r] EXCEPT ![k] = value]]]
    ELSE [columns |-> Append(frame.columns, name),
          rows    |-> [r \in 1..Len(frame.rows) |->
                         Append(frame.rows[r], value)]]

ApplyBusinessRules(frame, ts_str) ==
    LET k == StockCol(frame.columns)
    IN  SetColumn(IF k # 0 THEN BucketColumn(frame, k) ELSE frame,
                  UpdatedAt, ts_str)

\* lines 195-196
apply_business_rules ==
    /\ pc = "apply_business_rules"
    /\ stages' = Append(stages, "apply_business_rules")
    /\ \E now \in ClockTexts :
         /\ ts' = now
         /\ df' = ApplyBusinessRules(df, now)
    /\ logs' = IF StockCol(df.columns) = 0
               THEN Append(logs, "Column 'Stock' not found; skipping bucketing")
               ELSE logs
    /\ completed' = completed \cup {"apply_business_rules"}
    /\ pc' = "makedirs"
    /\ Running
    /\ UNCHANGED <<env_idx, cfg, token, site_id, item_id, remaining, requests,
                   tbl_hdr, tbl_body, files, error, hits, stock_raw, bucket>>

(***************************************************************************)
(* The outputs, lines 198-212.                                             *)
(***************************************************************************)
CsvPath == "docs/public_price_stock.csv"
JsonPath == "docs/public_price_stock.json"

\* lines 199-200
makedirs ==
    /\ pc = "makedirs"
    /\ \E ok \in BOOLEAN :
         IF ok
         THEN pc' = "to_csv" /\ Running /\ UNCHANGED <<logs, error>>
         ELSE RunFailed("makedirs", "OSError", <<>>)
    /\ UNCHANGED <<env_idx, cfg, token, site_id, item_id, remaining, requests,
                   stages, completed, tbl_hdr, tbl_body, df, ts, files, hits,
                   stock_raw, bucket>>

\* line 206
to_csv ==
    /\ pc = "to_csv"
    /\ stages' = Append(stages, "to_csv")
    /\ \E ok \in BOOLEAN :
         IF ok
         THEN /\ files' = Append(files, [path |-> CsvPath, data |-> df])
              /\ completed' = completed \cup {"to_csv"}
              /\ pc' = "to_json"
              /\ Running /\ UNCHANGED <<logs, error>>
         ELSE /\ RunFailed("to_csv", "OSError", <<>>)
              /\ UNCHANGED <<files, completed>>
    /\ UNCHANGED <<env_idx, cfg, token, site_id, item_id, remaining, requests,
                   tbl_hdr, tbl_body, df, ts, hits, stock_raw, bucket>>

\* lines 209-212 and 218; to_json(orient="records") raises on a frame with
\* two columns of one name
to_json ==
    /\ pc = "to_json"
    /\ stages' = Append(stages, "to_json")
    /\ \E ok \in BOOLEAN :
         IF ok /\ Unique(df.columns)
         THEN /\ files' = Append(files, [path |-> JsonPath, data |-> df])
              /\ completed' = completed \cup {"to_json"}
              /\ logs' = Append(logs, "SUCCESS")
              /\ exit_code' = 0
              /\ pc' = "exit"
              /\ UNCHANGED <<caught, failed_stage, error>>
         ELSE /\ RunFailed("to_json",
                           IF Unique(df.columns) THEN "OSError" ELSE "ValueError",
                           <<>>)
              /\ UNCHANGED <<files, completed>>
    /\ UNCHANGED <<env_idx, cfg, token, site_id, item_id, remaining, requests,
                   tbl_hdr, tbl_body, df, ts, hits, stock_raw, bucket>>

(***************************************************************************)
(* The whole run: import, then main.                                       *)
(***************************************************************************)
\* three workbook tables the service may hold during a whole run; the
\* headers of the last come out of make_unique with a name twice
SampleTables ==
    { [hdr  |-> [has_values |-> TRUE,
                 values |-> << <<<<"S", "t", "o", "c", "k">>, <<"P", "r", "i", "c", "e">>>> >>],
       body |-> [has_values |-> TRUE,
                 values |-> << <<<<"7">>, <<" ", "1", ",", "5", " ">>>>, <<<<"6", "0">>, <<"2">>>> >>]],
      [hdr  |-> [has_values |-> FALSE, values |-> <<>>],
       body |-> [has_values |-> FALSE, values |-> <<>>]],
      [hdr  |-> [has_values |-> TRUE,
                 values |-> << <<<<"a">>, <<"a">>, <<"a", "_", "_", "2">>>> >>],
       body |-> [has_values |-> TRUE,
                 values |-> << <<<<"1">>, <<"2">>, <<"3">>>> >>]] }

Idle ==
    /\ token = <<>> /\ site_id = <<>> /\ item_id = NoItem
    /\ remaining = {} /\ requests = <<>> /\ stages = <<>> /\ completed = {}
    /\ df = NoDf /\ ts = <<>> /\ files = <<>> /\ logs = <<>>
    /\ exit_code = 0 - 1 /\ caught = FALSE
    /\ failed_stage = "none" /\ error = "none" /\ hits = <<>>
    /\ stock_raw = None /\ bucket = <<>>

Init ==
    /\ pc = "import"
    /\ env_idx = 1
    /\ cfg = [n \in {EnvNames[i] : i \in 1..Len(EnvNames)} |-> <<>>]
    /\ \E t \in SampleTables : tbl_hdr = t.hdr /\ tbl_body = t.body
    /\ Idle

Next ==
    \/ env
    \/ get_token
    \/ resolve_site_id
    \/ resolve_item_id
    \/ try_item_by_path
    \/ search_item
    \/ read_table
    \/ read_table_body
    \/ apply_business_rules
    \/ makedirs
    \/ to_csv
    \/ to_json

Spec == Init /\ [][Next]_vars

(***************************************************************************)
(* read_table and apply_business_rules on every table within the bounds.   *)
(***************************************************************************)
\* header cells: a blank one, which make_unique names "col", and one that
\* is "col" itself among them
HeaderNames == { <<>>, <<"S", "t", "o", "c", "k">>, <<" ", "S", "T", "O", "C", "K">>, <<"u", "p", "d", "a", "t", "e", "d", "A", "t", "\n">>, <<"c", "o", "l">> }

HeaderRows == UNION {[1..n -> HeaderNames] : n \in 0..MaxCols}

\* the headerRowRange answer: no "values", an empty list, or one row
HeaderJsons ==
    {[has_values |-> FALSE, values |-> <<>>], [has_values |-> TRUE, values |-> <<>>]}
    \cup {[has_values |-> TRUE, values |-> <<h>>] : h \in HeaderRows}

CellTexts == { <<"7">>, <<"\t", "6", "0", " ">> }

\* a range's values are a rectangular grid
Bodies ==
    UNION {[1..r -> [1..w -> CellTexts]] : r \in 0..MaxRows, w \in 0..MaxCols}

\* the dataBodyRange answer: no "values", or a grid
BodyJsons ==
    {[has_values |-> FALSE, values |-> <<>>]}
    \cup {[has_values |-> TRUE, values |-> b] : b \in Bodies}

\* main has resolved the workbook by its configured path and is about to
\* read the table, whose name quote can encode
InitTable ==
    /\ pc = "read_table"
    /\ env_idx = Len(EnvNames)
    /\ cfg = [n \in {EnvNames[i] : i \in 1..Len(EnvNames)} |->
                Strip(CHOOSE v \in EnvChoices(n) \ {None, <<>>} :
                         Strip(v) # <<>> /\ Quote(v, {}) # UnicodeEncodeError)]
    /\ token = <<"t", "o", "k">>
    /\ site_id = <<"s", "i", "t", "e">>
    /\ item_id = [via |-> "path", ref |-> cfg["SP_XLSX_PATH"]]
    /\ remaining = Variants(cfg["SP_XLSX_PATH"])
    /\ requests =
         << [url |-> Url("site", cfg["SP_SITE_HOSTNAME"] \o <<":">> \o cfg["SP_SITE_PATH"]),
             status |-> 200],
            [url |-> PathUrl(cfg["SP_XLSX_PATH"]), status |-> 200] >>
    /\ stages = <<"get_token", "resolve_site_id", "resolve_item_id">>
    /\ completed = {"get_token", "resolve_site_id", "resolve_item_id"}
    /\ tbl_hdr \in HeaderJsons
    /\ tbl_body \in BodyJsons
    /\ df = NoDf /\ ts = <<>> /\ files = <<>>
    /\ logs = <<"Resolved workbook by path">>
    /\ exit_code = 0 - 1 /\ caught = FALSE
    /\ failed_stage = "none" /\ error = "none" /\ hits = <<>>
    /\ stock_raw = None /\ bucket = <<>>

NextTable ==
    \/ read_table
    \/ read_table_body
    \/ apply_business_rules

SpecTable == InitTable /\ [][NextTable]_vars

(***************************************************************************)
(* to_bucket on every stock text within the bounds.                        *)
(***************************************************************************)
StockAlphabet == {"0", "1", "4", "5", "9", ".", ",", "-", " ", "\t", "e", "_"}

\* texts outside the generated ones: the literals line 167 names, the
\* non-finite floats, exponents float() rounds to infinity, white space
\* other than blanks, underscores between digits, decimals at the edge of
\* infinity and decimals that round to the next integer
SpecialTexts ==
    { TextNone, TextNan,
      <<"N", "a", "N">>,
      <<"i", "n", "f">>,
      <<"-", "i", "n", "f">>,
      <<"I", "n", "f", "i", "n", "i", "t", "y">>,
      <<"1", "e", "9", "9", "9">>,
      <<"-", "1", "e", "4", "0", "0">>,
      <<"1", ".", "8", "e", "3", "0", "8">>,
      <<"1", ".", "7", "e", "3", "0", "8">>,
      <<"+", "7">>,
      <<"a", "b", "c">>,
      <<"4", "9", ".", "9", "9">>,
      <<"5", "0", ",", "0">>,
      <<"1", ".", "0", "0", "0", ",", "5">>,
      <<"\n", "7", "\r">>,
      <<"\f", "6", "0">>,
      <<"1", "_", "0">>,
      <<"1", "_", "_", "0">>,
      <<"1", "7", "9", "7", "6", "9", "3", "1", "3", "5", "e", "2", "9", "9">>,
      <<"1", "7", "9", "7", "6", "9", "3", "1", "3", "4", "e", "2", "9", "9">>,
      <<"0", ".", "9", "9", "9", "9", "9", "9", "9", "9", "9", "9", "9", "9", "9", "9", "9", "9", "5">>,
      <<"0", ".", "9", "9", "9", "9", "9", "9", "9", "9", "9", "9", "9", "9", "9", "9", "9", "9", "4">>,
      <<"9", ".", "9", "9", "9", "9", "9", "9", "9", "9", "9", "9", "9", "9", "9", "9", "9", "2">>,
      <<"4", "9", ".", "9", "9", "9", "9", "9", "9", "9", "9", "9", "9", "9", "9", "9", "9", "7">>,
      <<"4", "9", ".", "9", "9", "9", "9", "9", "9", "9", "9", "9", "9", "9", "9", "9", "9", "6">>,
      <<"-", "0", ".", "9", "9", "9", "9", "9", "9", "9", "9", "9", "9", "9", "9", "9", "9", "9", "9", "9", "9", "9", "9">> }

StockInputs ==
    {None} \cup SpecialTexts \cup UNION {[1..n -> StockAlphabet] : n \in 0..MaxLen}

InitBucket ==
    /\ pc = "to_bucket"
    /\ env_idx = 1
    /\ cfg = [n \in {EnvNames[i] : i \in 1..Len(EnvNames)} |-> <<>>]
    /\ tbl_hdr = [has_values |-> FALSE, values |-> <<>>]
    /\ tbl_body = [has_values |-> FALSE, values |-> <<>>]
    /\ token = <<>> /\ site_id = <<>> /\ item_id = NoItem
    /\ remaining = {} /\ requests = <<>> /\ stages = <<>> /\ completed = {}
    /\ df = NoDf /\ ts = <<>> /\ files = <<>> /\ logs = <<>>
    /\ exit_code = 0 - 1 /\ caught = FALSE
    /\ failed_stage = "none" /\ error = "none" /\ hits = <<>>
    /\ stock_raw \in StockInputs
    /\ bucket = <<>>

\* line 180: one cell handed to to_bucket
CallToBucket ==
    /\ pc = "to_bucket"
    /\ bucket' = to_bucket(stock_raw)
    /\ pc' = "bucketed"
    /\ UNCHANGED <<env_idx, cfg, token, site_id, item_id, remaining, requests,
                   stages, completed, tbl_hdr, tbl_body, df, ts, files, logs,
                   exit_code, caught, failed_stage, error, hits, stock_raw>>

NextBucket == CallToBucket

SpecBucket == InitBucket /\ [][NextBucket]_vars

(***************************************************************************)
(* Claims about to_bucket (SpecBucket).                                    *)
(***************************************************************************)
\* the stock text denotes a finite number: float() accepts it and the
\* result is neither infinite nor nan
IsNumber(raw) ==
    /\ raw # None
    /\ StockVal(raw) # <<>>
    /\ ParseFloat(StockVal(raw)).kind = "fin"

NumberOf(raw) == ParseFloat(StockVal(raw))

\* the float of the decimal f is strictly positive; the decimals below
\* 10^-323, the smallest of which float() takes to 0.0, are left out
Positive(f) ==
    /\ f.digits # <<>>
    /\ ~f.neg
    /\ Len(f.digits) + f.exp10 > 0 - 323

\* the float of the decimal f is strictly below the integer k, 1 <= k <= 50:
\* the decimal is below k and does not round to k
Below(f, k) ==
    LET ilen == Len(f.digits) + f.exp10 IN
    \/ ~Positive(f)
    \/ /\ f.exp10 >= 0
       /\ ilen <= 9
       /\ DigitsToNat(f.digits) * Pow10(f.exp10) < k
    \/ /\ f.exp10 < 0
       /\ \/ ilen < 0
          \/ /\ ilen <= 9
             /\ DigitsToNat(Take(f.digits, ilen)) < k
             /\ ~ /\ DigitsToNat(Take(f.digits, ilen)) = k - 1
                  /\ RoundsUp(k - 1, Drop(f.digits, ilen))

\* the rule of the specification applied to the number itself
RuleOnNumber(f) ==
    IF ~Positive(f) THEN B0
    ELSE IF Below(f, 10) THEN BLt10
    ELSE IF Below(f, 50) THEN BLt50
    ELSE BGt50

\* C1 as stated: for every number n the stock text denotes, to_bucket gives
\* "0" when n <= 0, "<10" when 0 < n < 10, "<50" when 10 <= n < 50 and ">50"
\* when n >= 50, non-integer n between 0 and 1 included.
C1_RuleOnNumber ==
    (pc = "bucketed" /\ IsNumber(stock_raw))
        => bucket = RuleOnNumber(NumberOf(stock_raw))

\* C1 amended: to_bucket applies the rule to n, the float of the text,
\* truncated toward zero, so it gives "0" when n < 1, "<10" when
\* 1 <= n < 10, "<50" when 10 <= n < 50 and ">50" when n >= 50.
C1_RuleOnTruncated ==
    (pc = "bucketed" /\ IsNumber(stock_raw)) =>
        LET f == NumberOf(stock_raw) IN
        /\ (bucket = B0)    <=> Below(f, 1)
        /\ (bucket = BLt10) <=> (~Below(f, 1) /\ Below(f, 10))
        /\ (bucket = BLt50) <=> (~Below(f, 10) /\ Below(f, 50))
        /\ (bucket = BGt50) <=> ~Below(f, 50)

\* a number strictly between 0 and 1 was bucketed, and came out as "0"
C1_Witness ==
    /\ pc = "bucketed"
    /\ IsNumber(stock_raw)
    /\ Positive(NumberOf(stock_raw))
    /\ Below(NumberOf(stock_raw), 1)
    /\ bucket = B0

\* C6: to_bucket never raises and returns one of the four buckets for any
\* input; every input that is empty or is not a finite number returns "0".
C6_Total ==
    pc = "bucketed" =>
        /\ bucket \in Buckets
        /\ ~IsNumber(stock_raw) => bucket = B0

\* a text float() rounds to infinity was bucketed
C6_Witness ==
    /\ pc = "bucketed"
    /\ stock_raw # None
    /\ ParseFloat(StockVal(stock_raw)).kind = "inf"
    /\ bucket = B0

(***************************************************************************)
(* Claims about read_table and apply_business_rules (SpecTable).           *)
(***************************************************************************)
\* the header row and the data body the service answered with
HeaderRow ==
    IF tbl_hdr.has_values /\ tbl_hdr.values # <<>> THEN tbl_hdr.values[1] ELSE <<>>

BodyRows == IF tbl_body.has_values THEN tbl_body.values ELSE <<>>

BodyWidth == IF BodyRows = <<>> THEN 0 ELSE Len(BodyRows[1])

\* read_table has returned, apply_business_rules has not run yet
TableRead == pc = "apply_business_rules"

\* apply_business_rules has returned
Transformed == pc = "makedirs"

\* C2 as stated: after apply_business_rules every column whose name is
\* "stock" ignoring case holds only "0", "<10", "<50", ">50", also when the
\* table has several such columns.
C2_EveryStockColumnBucketed ==
    Transformed =>
        \A i \in 1..Len(df.columns) :
            Lower(df.columns[i]) = StockText =>
                \A r \in 1..Len(df.rows) : df.rows[r][i] \in Buckets

\* C3: apply_business_rules leaves exactly one column named "updatedAt",
\* every row's value in it is the one string ts, an updatedAt column of the
\* source is overwritten and not duplicated, and the number of rows is
\* unchanged.
C3_UpdatedAt ==
    [][(pc = "apply_business_rules" /\ pc' = "makedirs") =>
        /\ Cardinality({i \in 1..Len(df'.columns) : df'.columns[i] = UpdatedAt}) = 1
        /\ \A i \in 1..Len(df'.columns) :
              df'.columns[i] = UpdatedAt =>
                 \A r \in 1..Len(df'.rows) : df'.rows[r][i] = ts'
        /\ Len(df'.rows) = Len(df.rows)
        /\ \A r \in 1..Len(df'.rows) : Len(df'.rows[r]) = Len(df'.columns)
        /\ Len(df'.columns) =
              IF \E i \in 1..Len(df.columns) : df.columns[i] = UpdatedAt
              THEN Len(df.columns) ELSE Len(df.columns) + 1]_vars

\* a two-row table whose source already had an updatedAt column came out
\* with that column overwritten and no column added
C3_Witness ==
    /\ Transformed
    /\ Len(df.rows) = 2
    /\ Len(HeaderRow) = BodyWidth
    /\ \E i \in 1..Len(HeaderRow) : Strip(HeaderRow[i]) = UpdatedAt
    /\ Len(df.columns) = Len(HeaderRow)
    /\ \A r \in 1..2 : \E i \in 1..Len(df.columns) :
          df.columns[i] = UpdatedAt /\ df.rows[r][i] = ts

\* C4 as stated: read_table returns one column per header-row column, named
\* by that header (surrounding blanks aside) and in the same order, and one
\* row per body row, whatever the header row and the body are.
C4_AllHeaderColumns ==
    (TableRead /\ HeaderRow # <<>>) =>
        /\ Len(df.columns) = Len(HeaderRow)
        /\ \A i \in 1..Len(HeaderRow) : df.columns[i] = Strip(HeaderRow[i])
        /\ Len(df.rows) = Len(BodyRows)

\* the name a header cell stands for: its text stripped, "col" when blank
HeaderBase(i) ==
    IF Strip(HeaderRow[i]) = <<>> THEN ColText ELSE Strip(HeaderRow[i])

\* what read_table does guarantee when it returns: one row per body row, in
\* order, each cell the body's cell stripped, and one column per body
\* column.  When the header row is not empty and has as many columns as the
\* body, column i is named by header i stripped ("col" when blank), with the
\* suffix __k when it is the k-th header of that name, k > 1; otherwise the
\* columns are named col1 .. colN and no header name is kept (none at all
\* when the body has no rows).
C4_ColumnsOfBody ==
    TableRead =>
        /\ Len(df.rows) = Len(BodyRows)
        /\ Len(df.columns) = BodyWidth
        /\ \A r \in 1..Len(BodyRows) :
              /\ Len(df.rows[r]) = BodyWidth
              /\ \A c \in 1..BodyWidth : df.rows[r][c] = Strip(BodyRows[r][c])
        /\ IF HeaderRow # <<>> /\ Len(HeaderRow) = BodyWidth
           THEN \A i \in 1..Len(HeaderRow) :
                   LET k == Cardinality({j \in 1..i : HeaderBase(j) = HeaderBase(i)})
                   IN  df.columns[i] =
                          IF k = 1 THEN HeaderBase(i)
                          ELSE HeaderBase(i) \o <<"_", "_">> \o NatToText(k)
           ELSE \A i \in 1..BodyWidth : df.columns[i] = ColText \o NatToText(i)

\* a table with two header columns and a one-column body of two rows was
\* read: its column is col1 and neither header name survives
C4_HeadersDropped ==
    /\ TableRead
    /\ Len(HeaderRow) = 2
    /\ BodyWidth = 1
    /\ Len(BodyRows) = 2
    /\ df.columns = <<ColText \o <<"1">>>>

(***************************************************************************)
(* Claims about the whole run (Spec).                                      *)
(***************************************************************************)
\* the stages of main, in pipeline order
Pipeline ==
    <<"get_token", "resolve_site_id", "resolve_item_id", "read_table",
      "apply_business_rules", "to_csv", "to_json">>

FilePaths == [i \in 1..Len(files) |-> files[i].path]

\* main returns 0 only after every stage succeeded and both files exist
ZeroOnlyOnSuccess ==
    exit_code = 0 =>
        /\ failed_stage = "none"
        /\ completed = {Pipeline[i] : i \in 1..Len(Pipeline)}
        /\ FilePaths = <<CsvPath, JsonPath>>

\* C5 as stated: whichever stage fails, environment loading included, the
\* exception is caught inside main, "Run failed" is logged and the process
\* exits with code 1; main returns 0 only if every stage succeeded and both
\* files were written.
C5_EveryFailureCaught ==
    /\ failed_stage # "none" =>
          /\ caught
          /\ \E i \in 1..Len(logs) : logs[i] = "Run failed"
          /\ exit_code = 1
    /\ ZeroOnlyOnSuccess

\* C5 amended: a failure of any stage from token acquisition on is caught
\* inside main, "Run failed" is logged and the process exits with code 1; a
\* missing or empty environment variable fails at import, before main
\* starts: nothing catches it, "Run failed" is not logged, and the process
\* still exits with code 1; main returns 0 only if every stage succeeded and
\* both files were written.
C5_FailuresInsideMainCaught ==
    /\ failed_stage \notin {"none", "env"} =>
          /\ caught
          /\ \E i \in 1..Len(logs) : logs[i] = "Run failed"
          /\ exit_code = 1
    /\ failed_stage = "env" =>
          /\ ~caught
          /\ \A i \in 1..Len(logs) : logs[i] # "Run failed"
          /\ stages = <<>>
          /\ exit_code = 1
    /\ pc = "exit" => exit_code \in {0, 1}
    /\ (pc = "exit" /\ exit_code = 1) => failed_stage # "none"
    /\ ZeroOnlyOnSuccess

\* the JSON write failed after the CSV was written: caught, logged, exit 1
C5_Witness ==
    /\ pc = "exit"
    /\ failed_stage = "to_json"
    /\ FilePaths = <<CsvPath>>
    /\ caught
    /\ exit_code = 1

\* the requests try_item_by_path has issued, in order
RECURSIVE PathRequests(_)
PathRequests(reqs) ==
    IF reqs = <<>> THEN <<>>
    ELSE IF reqs[1].url.kind = "path"
         THEN <<reqs[1]>> \o PathRequests(Tail(reqs))
         ELSE PathRequests(Tail(reqs))

SearchRequested == \E i \in 1..Len(requests) : requests[i].url.kind = "search"

\* the configured path is the first one requested
ConfiguredPathFirst ==
    PathRequests(requests) # <<>> =>
        PathRequests(requests)[1].url = PathUrl(cfg["SP_XLSX_PATH"])

\* the first path request answered below 400 ends the loop and is the
\* resolution: its id is returned, or resolve_item_id raises on reading it
FirstAnsweredWins ==
    LET pr == PathRequests(requests) IN
    /\ \A i \in 1..Len(pr) : (pr[i].status # NoStatus /\ pr[i].status < 400) =>
          /\ i = Len(pr)
          /\ pc # "try_paths"
          /\ item_id.via = "path" /\ PathUrl(item_id.ref) = pr[i].url
          /\ \/ "resolve_item_id" \in completed
             \/ failed_stage = "resolve_item_id" /\ error \in {"ValueError", "TypeError", "KeyError"}
    /\ item_id.via = "path" =>
          /\ pr # <<>>
          /\ pr[Len(pr)].status # NoStatus /\ pr[Len(pr)].status < 400

\* the search is requested only after every candidate answered 400 or more
SearchOnlyAfterAllFailed ==
    SearchRequested =>
        LET pr == PathRequests(requests) IN
        /\ {pr[i].url : i \in 1..Len(pr)} =
              {PathUrl(p) : p \in Variants(cfg["SP_XLSX_PATH"])}
        /\ \A i \in 1..Len(pr) : pr[i].status # NoStatus /\ pr[i].status >= 400

\* "not found" is raised only when nothing resolved
NotFoundOnlyWhenNothingMatches ==
    error = NotFound =>
        /\ item_id = NoItem
        /\ SearchRequested
        /\ \A i \in 1..Len(hits) :
              ~Stops(hits[i],
                   Variants(Replace(Dirname(Unquote(cfg["SP_XLSX_PATH"])),
                                    <<"\\">>, <<"/">>)))

\* C7 as stated: resolve_item_id requests the configured path first and the
\* substitution variants only after it failed, returns the id of the first
\* path request answered below 400, searches only after every candidate
\* answered 400 or more, and raises "not found" only when nothing resolved.
C7_ConfiguredPathFirst ==
    /\ ConfiguredPathFirst
    /\ FirstAnsweredWins
    /\ SearchOnlyAfterAllFailed
    /\ NotFoundOnlyWhenNothingMatches

\* what of C7 the code does guarantee: everything but the order, the id
\* being returned when the answer holds one
C7_ExceptOrder ==
    /\ FirstAnsweredWins
    /\ SearchOnlyAfterAllFailed
    /\ NotFoundOnlyWhenNothingMatches

StageIndex(s) == CHOOSE i \in 1..Len(Pipeline) : Pipeline[i] = s

\* C8: the stages token, site id, item id, table read, transform, CSV write,
\* JSON write each start at most once and only after every earlier stage
\* completed; no HTTP request is issued again after it failed; no file is
\* written before the table was read and transformed.
C8_LinearNoRetry ==
    /\ \A i \in 1..Len(stages) :
          /\ \A j \in 1..Len(stages) : stages[i] = stages[j] => i = j
          /\ \A k \in 1..(StageIndex(stages[i]) - 1) : Pipeline[k] \in completed
    /\ \A i \in 1..Len(requests) : \A j \in (i + 1)..Len(requests) :
          (requests[i].status = NoStatus \/ requests[i].status >= 400)
              => requests[j].url # requests[i].url
    /\ \A i \in 1..Len(files) :
          /\ {"read_table", "apply_business_rules"} \subseteq completed
          /\ files[i].data = df
          /\ \E c \in 1..Len(df.columns) : df.columns[c] = UpdatedAt

\* a run that succeeded after path candidates failed and the search found
\* the workbook
C8_Witness ==
    /\ pc = "exit"
    /\ exit_code = 0
    /\ item_id.via = "search"
    /\ stages = Pipeline
    /\ Len(files) = 2

=============================================================================
